---- MODULE Spec2Model ----
(***************************************************************************)
(* Aether Desktop: the execution pipeline of src/execution.py              *)
(*   DesktopFileHandler  - per-path debouncing of filesystem events        *)
(*   RuleEngine          - rule set, match cache, rule matching            *)
(*   PlacementEngine     - grid search and commit through the icon manager *)
(*   ExecutionEngine     - operation queue, worker, retry                  *)
(* together with the icon manager of src/utils/icon_manager.py.            *)
(* Every thread of the program is a process of the model whose position    *)
(* (pc) advances one interpreter-level step at a time.                     *)
(***************************************************************************)
EXTENDS Integers, Sequences, FiniteSets, TLC

\* ------------------------------------------------------------------------
\* Bounds of the model
\* ------------------------------------------------------------------------
\* number of filesystem notifications delivered in one behaviour
MaxNotify == 2
\* last value the wall clock reaches
MaxClock == 4
\* debounce_delay (2.0 s, execution.py:68) counted in clock readings: two
\* readings of datetime.now() taken within one clock quantum are equal
DebounceTicks == 2

\* calls of load_rules, calls of find_matching_rule and changes of files
MaxLoads == 2
MaxFinds == 3
MaxFileChanges == 1

\* operations the debouncer forwards to the queue
MaxOperations == 1
\* operations that arrive where the order of the queue is looked at
MaxQueued == 2
\* calls of organize_all_desktop_icons
MaxOrganize == 2
\* rules of a generated rule set
MaxRules == 3
\* calls of place_icon_in_region, and icons the desktop list view reports
MaxPlacements == 3
MaxIcons == 1
\* delayed_process threads still asleep when the observer is stopped
MaxLate == 1
\* calls of arrange_icons_in_grid and move_icon
MaxArrange == 1

\* the files of the desktop directory: the watched paths and one more
DesktopFiles == {"a.pdf", "B.PNG", "c.pdf"}
\* the watched paths and the event kinds on_created / on_moved pass on
Paths == {"a.pdf", "B.PNG"}
EventTypes == {"created", "moved"}
\* the threads of the model: two processing threads (a second one exists
\* when start_monitoring runs while the first is still alive) and the thread
\* that calls the engine from outside
Workers == {"worker", "worker2"}
Threads == {"worker", "worker2", "caller"}

\* PendingOperation.max_retries default
max_retries == 3

VARIABLES
  clock,               \* the value datetime.now() returns
  pending_events,      \* DesktopFileHandler.pending_events: path -> {time, type}
  observer,            \* the observer thread inside _debounce_event
  timers,              \* the delayed_process threads, by notification number
  n_notified,          \* notifications delivered so far
  pending_operations,  \* ExecutionEngine.pending_operations (deque)
  files,               \* the watched directory: path -> st_size, or -1 if absent
  current_rules,       \* RuleEngine.current_rules: the rule set object, 0 is None
  rule_lists,          \* the rules list of every rule set object handed to load_rules
  rule_cache,          \* RuleEngine.rule_cache: path -> rule
  loader,              \* the thread inside load_rules
  matchers,            \* the threads inside find_matching_rule
  last_two,            \* history: the last two results returned per path
  budget,              \* history: loads, calls and file changes so far
  screen,              \* IconManager.screen_width, screen_height
  listview,            \* IconManager.listview_hwnd was found
  icon_count,          \* what LVM_GETITEMCOUNT answers
  regions,             \* what IconManager.get_desktop_regions returns
  occupied_positions,  \* PlacementEngine.occupied_positions
  placement_lock,      \* PlacementEngine.placement_lock: its holder, or "free"
  placers,             \* the threads inside place_icon_in_region
  committed,           \* history: the successful placements, in commit order
  n_placed,            \* history: calls of place_icon_in_region so far
  monitoring,          \* ExecutionEngine.observer and stop_event
  auto_organize,       \* ExecutionEngine.auto_organize
  worker,              \* the processing thread: its position, its operation
  stats,               \* ExecutionEngine.stats
  op_log,              \* history: what became of each operation
  organizer,           \* organize_all_desktop_icons: its position, its result
  arranger,            \* arrange_icons_in_region / move_icon: its position, its result
  probe                \* a function of the engine called on its own: arguments, result

debVars == <<clock, pending_events, observer, timers, n_notified>>
ruleVars == <<files, current_rules, rule_lists, rule_cache, loader, matchers,
              last_two, budget>>
placeVars == <<screen, listview, icon_count, regions, occupied_positions,
               placement_lock, placers, committed, n_placed>>
workVars == <<monitoring, auto_organize, worker, stats, op_log>>
probeVars == <<probe>>
bulkVars == <<organizer, arranger>>
vars == <<debVars, pending_operations, ruleVars, placeVars, workVars, probeVars, bulkVars>>
\* what the debouncer, the rule engine, the placement engine never touch
notDebVars == <<ruleVars, placeVars, workVars, probeVars, bulkVars>>
notRuleVars == <<debVars, pending_operations, placeVars, workVars, probeVars, bulkVars>>
notPlaceVars == <<debVars, pending_operations, ruleVars, workVars, probeVars, bulkVars>>
notProbeVars == <<debVars, pending_operations, ruleVars, placeVars, workVars, bulkVars>>

\* ------------------------------------------------------------------------
\* DesktopFileHandler
\* ------------------------------------------------------------------------
\* absence of a key in pending_events
NoEvent == [time |-> -1, type |-> "none"]

TimerIds == 1..MaxNotify

IdleObserver == [pc |-> "idle", path |-> "none", type |-> "none", time |-> -1]
UnbornTimer == [pc |-> "unborn", path |-> "none", type |-> "none",
                time |-> -1, wake_at |-> -1]

\* dataclass PendingOperation; id is the identity of the object
PendingOperation(id, filepath, operation_type, timestamp) ==
  [id |-> id, filepath |-> filepath, operation_type |-> operation_type,
   timestamp |-> timestamp, retries |-> 0, max_retries |-> max_retries]

\* mutant of add_pending_operation: the operation is put in front
add_pending_operation_left(queue, operation) == <<operation>> \o queue

\* ExecutionEngine.add_pending_operation: append under processing_lock
add_pending_operation(queue, operation) == Append(queue, operation)

DebInit ==
  /\ clock = 0
  /\ pending_events = [p \in Paths |-> NoEvent]
  /\ observer = IdleObserver
  /\ timers = [i \in TimerIds |-> UnbornTimer]
  /\ n_notified = 0

\* the wall clock moves on
Tick ==
  /\ clock < MaxClock
  /\ clock' = clock + 1
  /\ UNCHANGED <<pending_events, observer, timers, n_notified, pending_operations>>
  /\ UNCHANGED notDebVars

\* on_created / on_moved -> _debounce_event, line 103: current_time = now()
debounce_event_now(p, t) ==
  /\ observer.pc = "idle"
  /\ n_notified < MaxNotify
  /\ observer' = [pc |-> "store", path |-> p, type |-> t, time |-> clock]
  /\ UNCHANGED <<clock, pending_events, timers, n_notified, pending_operations>>
  /\ UNCHANGED notDebVars

\* _debounce_event, lines 104-131: record the event, start the delay thread
debounce_event_store ==
  /\ observer.pc = "store"
  /\ pending_events' = [pending_events EXCEPT ![observer.path] =
                          [time |-> observer.time, type |-> observer.type]]
  /\ n_notified' = n_notified + 1
  /\ timers' = [timers EXCEPT ![n_notified + 1] =
                  [pc |-> "sleep", path |-> observer.path, type |-> observer.type,
                   time |-> observer.time, wake_at |-> clock + DebounceTicks]]
  /\ observer' = IdleObserver
  /\ UNCHANGED <<clock, pending_operations>>
  /\ UNCHANGED notDebVars

\* delayed_process, line 111: time.sleep(debounce_delay) returns
delayed_process_wake(i) ==
  /\ timers[i].pc = "sleep"
  /\ clock >= timers[i].wake_at
  /\ timers' = [timers EXCEPT ![i].pc = "check_in"]
  /\ UNCHANGED <<clock, pending_events, observer, n_notified, pending_operations>>
  /\ UNCHANGED notDebVars

\* delayed_process, line 114: filepath in self.pending_events
delayed_process_check_in(i) ==
  /\ timers[i].pc = "check_in"
  /\ timers' = [timers EXCEPT ![i].pc =
                  IF pending_events[timers[i].path] # NoEvent
                  THEN "check_time" ELSE "done"]
  /\ UNCHANGED <<clock, pending_events, observer, n_notified, pending_operations>>
  /\ UNCHANGED notDebVars

\* the comparison of line 115
StillLatest(event, current_time) == event.time = current_time

\* delayed_process, line 115: self.pending_events[filepath]['time'] == current_time
\* (KeyError ends the thread when the key was deleted after line 114)
delayed_process_check_time(i) ==
  /\ timers[i].pc = "check_time"
  /\ timers' = [timers EXCEPT ![i].pc =
                  IF pending_events[timers[i].path] = NoEvent THEN "raised"
                  ELSE IF StillLatest(pending_events[timers[i].path], timers[i].time)
                       THEN "enqueue" ELSE "done"]
  /\ UNCHANGED <<clock, pending_events, observer, n_notified, pending_operations>>
  /\ UNCHANGED notDebVars

\* delayed_process, lines 118-124: add_pending_operation(PendingOperation(...))
delayed_process_enqueue(i) ==
  /\ timers[i].pc = "enqueue"
  /\ pending_operations' = add_pending_operation(pending_operations,
        PendingOperation(i, timers[i].path, timers[i].type, timers[i].time))
  /\ timers' = [timers EXCEPT ![i].pc = "cleanup_in"]
  /\ UNCHANGED <<clock, pending_events, observer, n_notified>>
  /\ UNCHANGED notDebVars

\* delayed_process, line 127: if filepath in self.pending_events
delayed_process_cleanup_in(i) ==
  /\ timers[i].pc = "cleanup_in"
  /\ timers' = [timers EXCEPT ![i].pc =
                  IF pending_events[timers[i].path] # NoEvent
                  THEN "cleanup_del" ELSE "done"]
  /\ UNCHANGED <<clock, pending_events, observer, n_notified, pending_operations>>
  /\ UNCHANGED notDebVars

\* mutant of delayed_process_cleanup_del: the thread ends without the del
delayed_process_cleanup_del_skipped(i) ==
  /\ timers[i].pc = "cleanup_del"
  /\ timers' = [timers EXCEPT ![i].pc = "done"]
  /\ UNCHANGED <<clock, pending_events, observer, n_notified, pending_operations>>
  /\ UNCHANGED notDebVars

\* delayed_process, line 128: del self.pending_events[filepath]
\* (KeyError ends the thread when another thread deleted the key first)
delayed_process_cleanup_del(i) ==
  /\ timers[i].pc = "cleanup_del"
  /\ pending_events' = [pending_events EXCEPT ![timers[i].path] = NoEvent]
  /\ timers' = [timers EXCEPT ![i].pc =
                  IF pending_events[timers[i].path] = NoEvent THEN "raised" ELSE "done"]
  /\ UNCHANGED <<clock, observer, n_notified, pending_operations>>
  /\ UNCHANGED notDebVars

DebNext ==
  \/ Tick
  \/ \E p \in Paths, t \in EventTypes : debounce_event_now(p, t)
  \/ debounce_event_store
  \/ \E i \in TimerIds : delayed_process_wake(i)
  \/ \E i \in TimerIds : delayed_process_check_in(i)
  \/ \E i \in TimerIds : delayed_process_check_time(i)
  \/ \E i \in TimerIds : delayed_process_enqueue(i)
  \/ \E i \in TimerIds : delayed_process_cleanup_in(i)
  \/ \E i \in TimerIds : delayed_process_cleanup_del(i)


\* ------------------------------------------------------------------------
\* Files of the watched directory, and RuleEngine._analyze_file
\* ------------------------------------------------------------------------
Absent == -1
MB == 1048576
\* st_size of the files while they exist
FileSizes == {0}

UPPER == "ABCDEFGHIJKLMNOPQRSTUVWXYZ"
LOWER == "abcdefghijklmnopqrstuvwxyz"

\* str.lower() on one character, then on a string
LowerChar(c) ==
  IF \E i \in 1..Len(UPPER) : SubSeq(UPPER, i, i) = c
  THEN LET i == CHOOSE i \in 1..Len(UPPER) : SubSeq(UPPER, i, i) = c
       IN SubSeq(LOWER, i, i)
  ELSE c
RECURSIVE Lower(_)
Lower(str) ==
  IF Len(str) = 0 THEN ""
  ELSE LowerChar(SubSeq(str, 1, 1)) \o Lower(SubSeq(str, 2, Len(str)))

\* the Python test `pat in str` on strings
Contains(pat, str) ==
  \E i \in 1..(Len(str) - Len(pat) + 1) : SubSeq(str, i, i + Len(pat) - 1) = pat

\* os.path.splitext: the extension starts at the last dot, unless only dots
\* come before it
SplitextExt(filename) ==
  LET dots == {i \in 1..Len(filename) : SubSeq(filename, i, i) = "."}
  IN IF dots = {} THEN ""
     ELSE LET d == CHOOSE i \in dots : \A j \in dots : j <= i
          IN IF \E k \in 1..(d - 1) : SubSeq(filename, k, k) # "."
             THEN SubSeq(filename, d, Len(filename)) ELSE ""

\* type_mapping.get(ext.lower(), 'other'), lines 200-210
TypeMapping(ext) ==
  IF ext \in {".txt", ".doc", ".docx", ".pdf"} THEN "document"
  ELSE IF ext \in {".jpg", ".jpeg", ".png", ".gif"} THEN "image"
  ELSE IF ext \in {".mp4", ".avi", ".mkv"} THEN "video"
  ELSE IF ext \in {".mp3", ".wav"} THEN "audio"
  ELSE IF ext \in {".zip", ".rar", ".7z"} THEN "archive"
  ELSE IF ext \in {".exe", ".msi"} THEN "executable"
  ELSE IF ext = ".lnk" THEN "shortcut"
  ELSE "other"

\* the size classes of lines 211-223, size_mb = st_size / (1024 * 1024)
SizeRange(st_size) ==
  IF st_size < 1 * MB THEN "tiny"
  ELSE IF st_size < 10 * MB THEN "small"
  ELSE IF st_size < 100 * MB THEN "medium"
  ELSE IF st_size < 1000 * MB THEN "large"
  ELSE "huge"

\* RuleEngine._extract_keywords on the lower-cased file name. The categories
\* of common_keywords are written in pinyin here; the Chinese words of the
\* lists are left out, the file names of the model being ASCII
KeywordTable ==
  << [category |-> "gongzuo", words |-> {"work", "job", "project"}],
     [category |-> "xuexi",   words |-> {"study", "learn", "course"}],
     [category |-> "yule",    words |-> {"game", "movie", "music"}],
     [category |-> "gongju",  words |-> {"tool", "app", "software"}],
     [category |-> "wendang", words |-> {"doc", "text", "pdf"}] >>
extract_keywords(filename) ==
  {KeywordTable[k].category : k \in
     {k \in 1..Len(KeywordTable) : \E w \in KeywordTable[k].words : Contains(w, filename)}}

NoInfo == [exists |-> FALSE, filename |-> "", extension |-> "", file_type |-> "",
           size_range |-> "", keywords |-> {}]

\* RuleEngine._analyze_file: None when the file is gone
analyze_file(filepath, st_size) ==
  IF st_size = Absent THEN NoInfo
  ELSE [exists |-> TRUE, filename |-> filepath,
        extension |-> Lower(SplitextExt(filepath)),
        file_type |-> TypeMapping(Lower(SplitextExt(filepath))),
        size_range |-> SizeRange(st_size),
        keywords |-> extract_keywords(Lower(filepath))]

\* ------------------------------------------------------------------------
\* Rules (strategy.IconPlacementRule) and RuleEngine._rule_matches_file
\* ------------------------------------------------------------------------
\* a value of the conditions dict: key absent, one string, or a list
NoCond == [present |-> FALSE, is_str |-> FALSE, str |-> "", list |-> <<>>]
StrCond(v) == [present |-> TRUE, is_str |-> TRUE, str |-> v, list |-> <<>>]
ListCond(l) == [present |-> TRUE, is_str |-> FALSE, str |-> "", list |-> l]
NoConditions ==
  [file_type |-> NoCond, extensions |-> NoCond, size_range |-> NoCond,
   keywords |-> NoCond, name_patterns |-> NoCond]

\* mutant of AsList: a single string is not wrapped into a list
AsListUnwrapped(c) == c.list

\* `if isinstance(v, str): v = [v]`
AsList(c) == IF c.is_str THEN <<c.str>> ELSE c.list
Elems(l) == {l[i] : i \in 1..Len(l)}

\* RuleEngine._rule_matches_file, lines 261-328
rule_matches_file(rule, file_info) ==
  LET c == rule.conditions
      filename_lower == Lower(file_info.filename)
  IN /\ c.file_type.present => file_info.file_type \in Elems(AsList(c.file_type))
     /\ c.extensions.present => file_info.extension \in Elems(AsList(c.extensions))
     /\ c.size_range.present => file_info.size_range \in Elems(AsList(c.size_range))
     /\ c.keywords.present =>
           \E k \in Elems(AsList(c.keywords)) :
              Contains(Lower(k), filename_lower) \/ k \in file_info.keywords
     /\ c.name_patterns.present =>
           \E k \in Elems(AsList(c.name_patterns)) : Contains(Lower(k), filename_lower)

\* the rules the model draws rule sets from
RulePool ==
  [pdf  |-> [rule_id |-> "pdf", name |-> "PDF files",
             conditions |-> [NoConditions EXCEPT !.extensions = StrCond(".pdf")],
             target_region |-> "top_left", priority |-> 80, enabled |-> TRUE],
   docs |-> [rule_id |-> "docs", name |-> "Documents and images",
             conditions |-> [NoConditions EXCEPT
                               !.file_type = ListCond(<<"document", "image">>)],
             target_region |-> "top_right", priority |-> 50, enabled |-> TRUE],
   any  |-> [rule_id |-> "any", name |-> "Everything",
             conditions |-> NoConditions,
             target_region |-> "bottom_right", priority |-> 80, enabled |-> TRUE],
   off  |-> [rule_id |-> "off", name |-> "Switched off",
             conditions |-> NoConditions,
             target_region |-> "bottom_left", priority |-> 90, enabled |-> FALSE]]
Rule(id) == RulePool[id]

\* the rule sets handed to load_rules, in the order their producer wrote them
RuleSets ==
  { <<"docs", "pdf">>, <<"pdf", "any">>, <<"any", "pdf">>, <<"off", "pdf">> }

\* result of find_matching_rule when it returns None
None == "None"
RuleIds == DOMAIN RulePool

\* ------------------------------------------------------------------------
\* RuleEngine.load_rules and RuleEngine.find_matching_rule
\* ------------------------------------------------------------------------
LoadIds == 1..MaxLoads
\* the threads that call find_matching_rule: the processing thread (line 573)
\* and the thread of an organize_desktop_now request (line 630)
Matchers == {"worker", "caller"}

NoRule == "NoRule"
Unknown == "unknown"

\* list.sort(key=lambda r: r.priority, reverse=True): stable, descending
RECURSIVE StableSortDesc(_)
StableSortDesc(ids) ==
  IF Len(ids) <= 1 THEN ids
  ELSE LET sorted == StableSortDesc(SubSeq(ids, 1, Len(ids) - 1))
           x == ids[Len(ids)]
           k == Cardinality({i \in 1..Len(sorted) :
                               Rule(sorted[i]).priority >= Rule(x).priority})
       IN SubSeq(sorted, 1, k) \o <<x>> \o SubSeq(sorted, k + 1, Len(sorted))

\* what another thread sees of a rules list: CPython empties a list for the
\* time list.sort works on it
VisibleList(id) == IF rule_lists[id].sorting THEN <<>> ELSE rule_lists[id].cur

\* the last load_rules call that has returned (0: none)
Completed == IF loader.pc = "idle" THEN budget.loads ELSE budget.loads - 1

IdleMatcher ==
  [pc |-> "idle", path |-> "none", info |-> NoInfo, list |-> 0, idx |-> 0,
   rule |-> None, result |-> None, before |-> Unknown,
   from_cache |-> FALSE, scanned |-> FALSE,
   overlap |-> FALSE, touched |-> FALSE, gone |-> FALSE,
   start_done |-> 0, end_started |-> 0]

RuleInit ==
  /\ files = [p \in DesktopFiles |-> 0]
  /\ current_rules = 0
  /\ rule_lists = [i \in LoadIds |-> [orig |-> <<>>, cur |-> <<>>, sorting |-> FALSE]]
  /\ rule_cache = [p \in Paths |-> NoRule]
  /\ loader = [pc |-> "idle", id |-> 0]
  /\ matchers = [m \in Threads |-> IdleMatcher]
  /\ last_two = [p \in Paths |-> [prev |-> Unknown, cur |-> Unknown]]
  /\ budget = [loads |-> 0, finds |-> 0, changes |-> 0]

InFlight(m) == matchers[m].pc \notin {"idle", "returned"}

\* history: a step of load_rules overlaps every call in flight
LoadStepSeen(ms) ==
  [m \in Threads |-> IF InFlight(m) THEN [ms[m] EXCEPT !.overlap = TRUE] ELSE ms[m]]
NoHistory == [p \in Paths |-> [prev |-> Unknown, cur |-> Unknown]]

\* load_rules, line 146: self.current_rules = ruleset
load_rules_set(ruleset) ==
  /\ loader.pc = "idle"
  /\ budget.loads < MaxLoads
  /\ LET id == budget.loads + 1
     IN /\ rule_lists' = [rule_lists EXCEPT ![id] =
                            [orig |-> ruleset, cur |-> ruleset, sorting |-> FALSE]]
        /\ current_rules' = id
        /\ loader' = [pc |-> "clear", id |-> id]
  /\ budget' = [budget EXCEPT !.loads = @ + 1]
  /\ matchers' = LoadStepSeen(matchers)
  /\ last_two' = NoHistory
  /\ UNCHANGED <<files, rule_cache>>
  /\ UNCHANGED notRuleVars

\* load_rules, line 147: self.rule_cache.clear()
load_rules_clear ==
  /\ loader.pc = "clear"
  /\ rule_cache' = [p \in Paths |-> NoRule]
  /\ loader' = [loader EXCEPT !.pc = "sort"]
  /\ matchers' = LoadStepSeen(matchers)
  /\ last_two' = NoHistory
  /\ UNCHANGED <<files, current_rules, rule_lists, budget>>
  /\ UNCHANGED notRuleVars

\* load_rules, line 152: list.sort takes the list and computes the keys
load_rules_sort_begin ==
  /\ loader.pc = "sort"
  /\ rule_lists' = [rule_lists EXCEPT ![loader.id].sorting = TRUE]
  /\ loader' = [loader EXCEPT !.pc = "sorting"]
  /\ matchers' = LoadStepSeen(matchers)
  /\ last_two' = NoHistory
  /\ UNCHANGED <<files, current_rules, rule_cache, budget>>
  /\ UNCHANGED notRuleVars

\* mutant of SortedRules: the rules are left in the order they came in
UnsortedRules(ids) == ids

\* the order list.sort leaves the rules in
SortedRules(ids) == StableSortDesc(ids)

\* load_rules, line 152: list.sort puts the sorted rules back; load_rules returns
load_rules_sort_end ==
  /\ loader.pc = "sorting"
  /\ rule_lists' = [rule_lists EXCEPT ![loader.id] =
                      [@ EXCEPT !.cur = SortedRules(@), !.sorting = FALSE]]
  /\ loader' = [loader EXCEPT !.pc = "idle"]
  /\ matchers' = LoadStepSeen(matchers)
  /\ last_two' = NoHistory
  /\ UNCHANGED <<files, current_rules, rule_cache, budget>>
  /\ UNCHANGED notRuleVars

\* history: a call that no load step and no change of its file overlapped
\* becomes the latest result of its path, paired with the result of the call
\* that had returned last when it began; a call that a load step or a change
\* overlapped is not compared with any other
Remember(m, result) ==
  LET p == matchers[m].path
  IN IF matchers[m].overlap \/ matchers[m].touched
     THEN last_two
     ELSE [last_two EXCEPT ![p] = [prev |-> matchers[m].before, cur |-> result]]

\* find_matching_rule returns result; the iterator and the rule in hand are
\* locals of the call
Return(m, result, cached) ==
  /\ matchers' = [matchers EXCEPT ![m] =
                    [@ EXCEPT !.pc = "returned", !.result = result,
                              !.list = 0, !.idx = 0, !.rule = None,
                              !.from_cache = cached, !.end_started = budget.loads]]
  /\ last_two' = Remember(m, result)

\* find_matching_rule(p) is called by thread m; line 160: no rule set, or
\* an empty one
find_call(m, p) ==
  /\ matchers[m].pc \in {"idle", "returned"}
  /\ budget' = [budget EXCEPT !.finds = @ + 1]
  /\ LET call == [IdleMatcher EXCEPT !.path = p, !.start_done = Completed,
                                     !.before = last_two[p].cur,
                                     !.gone = (files[p] = Absent),
                                     !.overlap = (loader.pc # "idle")]
     IN IF current_rules = 0 \/ VisibleList(current_rules) = <<>>
        THEN /\ matchers' = [matchers EXCEPT ![m] =
                               [call EXCEPT !.pc = "returned",
                                            !.end_started = budget.loads]]
             /\ last_two' = IF call.overlap THEN last_two
                            ELSE [last_two EXCEPT ![p] = [prev |-> @.cur, cur |-> None]]
        ELSE /\ matchers' = [matchers EXCEPT ![m] = [call EXCEPT !.pc = "cache_in"]]
             /\ UNCHANGED last_two
  /\ UNCHANGED <<files, current_rules, rule_lists, rule_cache, loader>>
  /\ UNCHANGED notRuleVars

\* a call of find_matching_rule from outside the engine's own threads
find_begin(m, p) ==
  /\ budget.finds < MaxFinds
  /\ find_call(m, p)

\* line 164: if filepath in self.rule_cache
find_cache_in(m) ==
  /\ matchers[m].pc = "cache_in"
  /\ matchers' = [matchers EXCEPT ![m].pc =
                    IF rule_cache[matchers[m].path] # NoRule
                    THEN "cache_get" ELSE "analyze"]
  /\ UNCHANGED <<files, current_rules, rule_lists, rule_cache, loader, last_two, budget>>
  /\ UNCHANGED notRuleVars

\* line 165: return self.rule_cache[filepath]; a KeyError (the cache was
\* cleared after line 164) is caught at line 185 and None returned
find_cache_get(m) ==
  /\ matchers[m].pc = "cache_get"
  /\ IF rule_cache[matchers[m].path] = NoRule
     THEN Return(m, None, FALSE)
     ELSE Return(m, rule_cache[matchers[m].path], TRUE)
  /\ UNCHANGED <<files, current_rules, rule_lists, rule_cache, loader, budget>>
  /\ UNCHANGED notRuleVars

\* lines 168-170: file_info = self._analyze_file(filepath)
find_analyze(m) ==
  /\ matchers[m].pc = "analyze"
  /\ LET info == analyze_file(matchers[m].path, files[matchers[m].path])
     IN IF ~info.exists
        THEN Return(m, None, FALSE)
        ELSE /\ matchers' = [matchers EXCEPT ![m] =
                               [@ EXCEPT !.pc = "iter_begin", !.info = info]]
             /\ UNCHANGED last_two
  /\ UNCHANGED <<files, current_rules, rule_lists, rule_cache, loader, budget>>
  /\ UNCHANGED notRuleVars

\* line 173: iter(self.current_rules.rules)
find_iter_begin(m) ==
  /\ matchers[m].pc = "iter_begin"
  /\ matchers' = [matchers EXCEPT ![m] =
                    [@ EXCEPT !.pc = "iter", !.list = current_rules, !.idx = 1,
                              !.scanned = TRUE]]
  /\ UNCHANGED <<files, current_rules, rule_lists, rule_cache, loader, last_two, budget>>
  /\ UNCHANGED notRuleVars

\* lines 173-177: one turn of the loop over the rules: the next rule of the
\* list, its enabled flag and the test of its conditions
find_iter(m) ==
  /\ matchers[m].pc = "iter"
  /\ LET rules == VisibleList(matchers[m].list)
         i == matchers[m].idx
     IN IF i > Len(rules)
        THEN Return(m, None, FALSE)
        ELSE IF ~Rule(rules[i]).enabled
        THEN /\ matchers' = [matchers EXCEPT ![m].idx = i + 1]
             /\ UNCHANGED last_two
        ELSE IF rule_matches_file(Rule(rules[i]), matchers[m].info)
        THEN /\ matchers' = [matchers EXCEPT ![m] =
                               [@ EXCEPT !.pc = "cache_put", !.rule = rules[i]]]
             /\ UNCHANGED last_two
        ELSE /\ matchers' = [matchers EXCEPT ![m].idx = i + 1]
             /\ UNCHANGED last_two
  /\ UNCHANGED <<files, current_rules, rule_lists, rule_cache, loader, budget>>
  /\ UNCHANGED notRuleVars

\* lines 179-180: self.rule_cache[filepath] = rule; return rule
find_cache_put(m) ==
  /\ matchers[m].pc = "cache_put"
  /\ rule_cache' = [rule_cache EXCEPT ![matchers[m].path] = matchers[m].rule]
  /\ Return(m, matchers[m].rule, FALSE)
  /\ UNCHANGED <<files, current_rules, rule_lists, loader, budget>>
  /\ UNCHANGED notRuleVars

\* the environment writes, replaces or removes a file of the directory
FileChange(p, st_size) ==
  /\ budget.changes < MaxFileChanges
  /\ st_size # files[p]
  /\ files' = [files EXCEPT ![p] = st_size]
  /\ budget' = [budget EXCEPT !.changes = @ + 1]
  /\ matchers' = [m \in Threads |->
                    IF InFlight(m) /\ matchers[m].path = p
                    THEN [matchers[m] EXCEPT !.touched = TRUE] ELSE matchers[m]]
  /\ last_two' = [last_two EXCEPT ![p] = [prev |-> Unknown, cur |-> Unknown]]
  /\ UNCHANGED <<current_rules, rule_lists, rule_cache, loader>>
  /\ UNCHANGED notRuleVars

\* one load_rules call beside the find_matching_rule calls of two threads
RuleNext ==
  \/ \E ruleset \in RuleSets : budget.loads = 0 /\ load_rules_set(ruleset)
  \/ load_rules_clear
  \/ load_rules_sort_begin
  \/ load_rules_sort_end
  \/ \E m \in Matchers, p \in Paths : find_begin(m, p)
  \/ \E m \in Matchers : find_cache_in(m)
  \/ \E m \in Matchers : find_cache_get(m)
  \/ \E m \in Matchers : find_analyze(m)
  \/ \E m \in Matchers : find_iter_begin(m)
  \/ \E m \in Matchers : find_iter(m)
  \/ \E m \in Matchers : find_cache_put(m)
  \/ \E p \in Paths, sz \in FileSizes \cup {Absent} : FileChange(p, sz)

\* rule sets loaded one after the other beside the calls of one thread and
\* one change of a file
OneMatcherNext ==
  \/ \E ruleset \in RuleSets : load_rules_set(ruleset)
  \/ load_rules_clear
  \/ load_rules_sort_begin
  \/ load_rules_sort_end
  \/ \E p \in Paths : find_begin("worker", p)
  \/ find_cache_in("worker")
  \/ find_cache_get("worker")
  \/ find_analyze("worker")
  \/ find_iter_begin("worker")
  \/ find_iter("worker")
  \/ find_cache_put("worker")
  \/ \E p \in Paths, sz \in FileSizes \cup {Absent} :
        budget.changes = 0 /\ FileChange(p, sz)


\* ------------------------------------------------------------------------
\* IconManager (utils/icon_manager.py)
\* ------------------------------------------------------------------------
\* dataclass DesktopRegion, with its defaults grid_size = 32, margin = 5
DesktopRegion(id, x, y, width, height) ==
  [id |-> id, x |-> x, y |-> y, width |-> width, height |-> height,
   grid_size |-> 32, margin |-> 5]

\* IconManager.get_desktop_regions: the four quarters of the screen
get_desktop_regions(screen_width, screen_height) ==
  LET quarter_width == screen_width \div 2
      quarter_height == screen_height \div 2
  IN << DesktopRegion("top_left", 0, 0, quarter_width, quarter_height),
        DesktopRegion("top_right", quarter_width, 0, quarter_width, quarter_height),
        DesktopRegion("bottom_left", 0, quarter_height, quarter_width, quarter_height),
        DesktopRegion("bottom_right", quarter_width, quarter_height,
                      quarter_width, quarter_height) >>

\* IconManager._get_icon_info_by_index: the position reported for icon index
icon_info_by_index(index) ==
  [filename |-> index, x |-> (index % 10) * 80 + 50, y |-> (index \div 10) * 80 + 50]

\* IconManager.get_all_icon_positions: empty without the list view handle
get_all_icon_positions(listview_hwnd, count) ==
  IF ~listview_hwnd THEN {} ELSE {icon_info_by_index(i) : i \in 0..(count - 1)}

\* IconManager._validate_coordinates
validate_coordinates(x, y, screen_width, screen_height) ==
  /\ 0 <= x /\ x <= screen_width - 32
  /\ 0 <= y /\ y <= screen_height - 32

\* IconManager.set_icon_position, lines 229-239: the coordinates are
\* validated and the file looked up; False is returned when either fails.
\* Otherwise the function sleeps 0.1 s and returns True (lines 245-248);
\* nothing is written anywhere
set_icon_position(filename, x, y, screen_width, screen_height, file_exists) ==
  validate_coordinates(x, y, screen_width, screen_height) /\ file_exists

\* ------------------------------------------------------------------------
\* PlacementEngine
\* ------------------------------------------------------------------------
\* the threads that call place_icon_in_region: the queue worker and the
\* caller of organize_all_desktop_icons
Placers == {"worker", "caller"}
\* the region ids of the calls: two of the catalog and one it lacks
RegionIds == {"top_left", "bottom_right", "center"}
\* the screens of the model: 90 x 90 gives every region exactly one cell, and
\* puts the cell of bottom_right where icon 0 is reported
ScreenSizes == {<<90, 90>>, <<1920, 1080>>}

NoPosition == <<-1, -1>>
NoRegion == [id |-> "none", x |-> 0, y |-> 0, width |-> 0, height |-> 0,
             grid_size |-> 0, margin |-> 0]

\* mutant of update_occupied_positions: the set is not cleared before it is
\* refilled
update_occupied_positions_kept(icons) ==
  occupied_positions \cup {<<i.x, i.y>> : i \in icons}

\* PlacementEngine._update_occupied_positions: clear, then refill from the
\* icon manager
update_occupied_positions(icons) == {<<i.x, i.y>> : i \in icons}

\* the grid _find_available_position scans
GridCells(region) ==
  LET icon_size == region.grid_size
      margin == region.margin
      start_x == region.x + margin
      start_y == region.y + margin
      max_x == region.x + region.width - icon_size - margin
      max_y == region.y + region.height - icon_size - margin
      xs == {x \in start_x..max_x : (x - start_x) % (icon_size + margin) = 0}
      ys == {y \in start_y..max_y : (y - start_y) % (icon_size + margin) = 0}
  IN xs \X ys

FreeCells(region, occupied) == {c \in GridCells(region) : c \notin occupied}

\* the two while loops of lines 398-406, from the cell (x, y) on
RECURSIVE scan_from(_, _, _, _, _, _, _)
scan_from(occupied, start_x, step, max_x, max_y, x, y) ==
  IF ~(y <= max_y) THEN NoPosition
  ELSE IF ~(x <= max_x) THEN scan_from(occupied, start_x, step, max_x, max_y, start_x, y + step)
  ELSE IF <<x, y>> \notin occupied THEN <<x, y>>
  ELSE scan_from(occupied, start_x, step, max_x, max_y, x + step, y)

\* mutant of find_available_position: the loops stop before the last column
\* and the last row (x < max_x, y < max_y)
find_available_position_strict(region, occupied) ==
  LET icon_size == region.grid_size
      margin == region.margin
      start_x == region.x + margin
      start_y == region.y + margin
      max_x == region.x + region.width - icon_size - margin
      max_y == region.y + region.height - icon_size - margin
  IN scan_from(occupied, start_x, icon_size + margin, max_x - 1, max_y - 1, start_x, start_y)

\* PlacementEngine._find_available_position after the refresh (lines
\* 386-408)
find_available_position(region, occupied) ==
  LET icon_size == region.grid_size
      margin == region.margin
      start_x == region.x + margin
      start_y == region.y + margin
      max_x == region.x + region.width - icon_size - margin
      max_y == region.y + region.height - icon_size - margin
  IN scan_from(occupied, start_x, icon_size + margin, max_x, max_y, start_x, start_y)

\* mutant of target_region: an unknown id falls back to the first region
target_region_or_first(catalog, region_id) ==
  LET hits == {i \in 1..Len(catalog) : catalog[i].id = region_id}
  IN IF hits = {} THEN catalog[1]
     ELSE catalog[CHOOSE i \in hits : \A j \in hits : i <= j]

\* lines 346-352: the region of the catalog with this id
target_region(catalog, region_id) ==
  LET hits == {i \in 1..Len(catalog) : catalog[i].id = region_id}
  IN IF hits = {} THEN NoRegion
     ELSE catalog[CHOOSE i \in hits : \A j \in hits : i <= j]

IdlePlacer ==
  [pc |-> "idle", filename |-> "none", region_id |-> "none", position |-> NoPosition,
   result |-> FALSE, n_free |-> -1, raced |-> FALSE,
   store_reads |-> 0, store_writes |-> 0]

PlaceInit ==
  /\ screen \in ScreenSizes
  /\ listview \in BOOLEAN
  /\ icon_count \in 0..MaxIcons
  /\ occupied_positions = {}
  /\ placement_lock = "free"
  /\ placers = [t \in Threads |-> IdlePlacer]
  /\ committed = <<>>
  /\ n_placed = 0

Placing(t) == placers[t].pc \notin {"idle", "returned"}

\* place_icon_in_region(filename, region_id) is called by thread t
place_call(t, filename, region_id) ==
  /\ placers[t].pc \in {"idle", "returned"}
  /\ n_placed' = n_placed + 1
  /\ placers' = [u \in Threads |->
       IF u = t
       THEN [IdlePlacer EXCEPT !.pc = "acquire", !.filename = filename,
                               !.region_id = region_id,
                               !.raced = \E v \in Threads \ {t} : Placing(v)]
       ELSE IF Placing(u) THEN [placers[u] EXCEPT !.raced = TRUE] ELSE placers[u]]
  /\ UNCHANGED <<screen, listview, icon_count, regions, occupied_positions,
                 placement_lock, committed>>
  /\ UNCHANGED notPlaceVars

\* a call of place_icon_in_region from outside the engine's own threads
place_begin(t, filename, region_id) ==
  /\ n_placed < MaxPlacements
  /\ place_call(t, filename, region_id)

\* the guard of line 344: with self.placement_lock
LockFree(lock) == lock = "free"

\* line 344: the lock is taken
place_acquire(t) ==
  /\ placers[t].pc = "acquire"
  /\ LockFree(placement_lock)
  /\ placement_lock' = t
  /\ placers' = [placers EXCEPT ![t].pc = "scan"]
  /\ UNCHANGED <<screen, listview, icon_count, regions, occupied_positions,
                 committed, n_placed>>
  /\ UNCHANGED notPlaceVars

\* lines 346-362: the region is resolved, the occupied set refreshed and the
\* grid scanned; the lock is released on the two early returns
place_scan(t) ==
  /\ placers[t].pc = "scan"
  /\ LET region == target_region(regions, placers[t].region_id)
         occupied == update_occupied_positions(get_all_icon_positions(listview, icon_count))
         position == find_available_position(region, occupied)
     IN IF region = NoRegion
        THEN /\ placers' = [placers EXCEPT ![t] =
                             [@ EXCEPT !.pc = "returned", !.result = FALSE]]
             /\ placement_lock' = "free"
             /\ UNCHANGED occupied_positions
        ELSE /\ occupied_positions' = occupied
             /\ IF position = NoPosition
                THEN /\ placers' = [placers EXCEPT ![t] =
                          [@ EXCEPT !.pc = "returned", !.result = FALSE, !.n_free = 0,
                                    !.store_reads = @ + 1]]
                     /\ placement_lock' = "free"
                ELSE /\ placers' = [placers EXCEPT ![t] =
                          [@ EXCEPT !.pc = "commit", !.position = position,
                                    !.n_free = Cardinality(FreeCells(region, occupied)),
                                    !.store_reads = @ + 1]]
                     /\ UNCHANGED placement_lock
  /\ UNCHANGED <<screen, listview, icon_count, regions, committed, n_placed>>
  /\ UNCHANGED notPlaceVars

\* mutant of MarkOccupied: the cell is marked whatever the store answered
MarkOccupiedAlways(occupied, success, cell) == occupied \cup {cell}

\* lines 367-369: if success: self.occupied_positions.add((x, y))
MarkOccupied(occupied, success, cell) ==
  IF success THEN occupied \cup {cell} ELSE occupied

\* lines 364-367 and set_icon_position up to its sleep: the icon manager is
\* asked to move the icon; when it refuses, False is returned, the cell is
\* not added and the lock is released; otherwise the thread sleeps inside
\* set_icon_position, the lock held
place_set_position(t) ==
  /\ placers[t].pc = "commit"
  /\ LET x == placers[t].position[1]
         y == placers[t].position[2]
         success == set_icon_position(placers[t].filename, x, y, screen[1], screen[2],
                                      files[placers[t].filename] # Absent)
     IN IF success
        THEN /\ placers' = [placers EXCEPT ![t] =
                             [@ EXCEPT !.pc = "sleep", !.store_writes = @ + 1]]
             /\ UNCHANGED <<occupied_positions, placement_lock>>
        ELSE /\ placers' = [placers EXCEPT ![t] =
                             [@ EXCEPT !.pc = "returned", !.result = FALSE,
                                       !.store_writes = @ + 1]]
             /\ occupied_positions' = MarkOccupied(occupied_positions, FALSE, <<x, y>>)
             /\ placement_lock' = "free"
  /\ UNCHANGED <<screen, listview, icon_count, regions, committed, n_placed>>
  /\ UNCHANGED notPlaceVars

\* set_icon_position lines 245-248 and lines 369-374: the sleep is over and
\* True returned, whatever has become of the file; the cell is added to the
\* occupied set and the lock released
place_commit(t) ==
  /\ placers[t].pc = "sleep"
  /\ LET x == placers[t].position[1]
         y == placers[t].position[2]
     IN /\ occupied_positions' = MarkOccupied(occupied_positions, TRUE, <<x, y>>)
        /\ committed' = Append(committed, [filename |-> placers[t].filename,
                                           region_id |-> placers[t].region_id,
                                           position |-> <<x, y>>,
                                           by |-> "place_icon_in_region"])
        /\ placers' = [placers EXCEPT ![t] =
                         [@ EXCEPT !.pc = "returned", !.result = TRUE]]
  /\ placement_lock' = "free"
  /\ UNCHANGED <<screen, listview, icon_count, regions, n_placed>>
  /\ UNCHANGED notPlaceVars

\* one thread places the files of the desktop into the region at (0, 0)
ScenarioNext ==
  \/ \E f \in DesktopFiles : place_begin("worker", f, "top_left")
  \/ place_acquire("worker")
  \/ place_scan("worker")
  \/ place_set_position("worker")
  \/ place_commit("worker")

\* one caller places files, some of which have been deleted
StoreNext ==
  \/ \E f \in Paths, r \in RegionIds : place_begin("caller", f, r)
  \/ place_acquire("caller")
  \/ place_scan("caller")
  \/ place_set_position("caller")
  \/ place_commit("caller")
  \/ \E p \in Paths : FileChange(p, Absent)

\* the desktop changes under the engine: the list view reports another
\* number of icons (LVM_GETITEMCOUNT, icon_manager.py line 172)
icons_change(count) ==
  /\ count # icon_count
  /\ icon_count' = count
  /\ UNCHANGED <<screen, listview, regions, occupied_positions, placement_lock,
                 placers, committed, n_placed>>
  /\ UNCHANGED notPlaceVars

\* one caller places files while icons come and go on the desktop
RefreshNext ==
  \/ \E f \in Paths, r \in RegionIds : place_begin("caller", f, r)
  \/ place_acquire("caller")
  \/ place_scan("caller")
  \/ place_set_position("caller")
  \/ place_commit("caller")
  \/ \E count \in 0..MaxIcons : icons_change(count)

PlaceNext ==
  \/ \E t \in Placers, f \in Paths, r \in RegionIds : place_begin(t, f, r)
  \/ \E t \in Placers : place_acquire(t)
  \/ \E t \in Placers : place_scan(t)
  \/ \E t \in Placers : place_set_position(t)
  \/ \E t \in Placers : place_commit(t)

\* ------------------------------------------------------------------------
\* ExecutionEngine: the operation queue, its processing threads, start and stop
\* ------------------------------------------------------------------------
OpIds == 1..MaxQueued
NoOperation == [id |-> 0, filepath |-> "none", operation_type |-> "none",
                timestamp |-> 0, retries |-> 0, max_retries |-> max_retries]
\* the rule sets loaded while the queue is worked on
WorkerRuleSets == { <<"pdf", "any">>, <<"pdf">> }
\* processing_thread.join(timeout=5), line 512
join_timeout == 5

UnstartedWorker == [pc |-> "unstarted", op |-> NoOperation, rule |-> None, delay |-> 0]

WorkInit ==
  /\ monitoring = [observer |-> "none", stop_event |-> FALSE,
                   processing_thread |-> "none", ctl |-> "idle", result |-> "none",
                   log |-> "none"]
  /\ auto_organize \in BOOLEAN
  /\ worker = [w \in Workers |-> UnstartedWorker]
  /\ stats = [processed_files |-> 0, successful_moves |-> 0, failed_moves |-> 0]
  /\ op_log = [n_ops |-> 0,
               attempts |-> [i \in OpIds |-> 0],
               outcome |-> [i \in OpIds |-> "none"],
               enqueued |-> <<>>, dequeued |-> <<>>, at_stop |-> {},
               pending_at_stop |-> {}, late |-> {}]

\* a thread object is alive from its start to the end of _process_operations
Alive(w) == worker[w].pc \notin {"unstarted", "exited"}
\* the thread is inside _execute_operation
Executing(w) == worker[w].pc \in {"execute", "match", "place", "backoff"}
\* the Thread object start_monitoring creates: the first one not alive
NewThread == IF ~Alive("worker") THEN "worker" ELSE "worker2"

\* history: the operation thread w holds has come to its end
Outcome(log, w, outcome) == [log EXCEPT !.outcome[worker[w].op.id] = outcome]

\* start_monitoring is called from the thread that owns the engine; result
\* is what the last call returned and log the message it wrote (lines 470,
\* 492, 496)
start_monitoring_call ==
  /\ monitoring.ctl = "idle"
  /\ monitoring' = [monitoring EXCEPT !.ctl = "start"]
  /\ UNCHANGED <<auto_organize, worker, stats, op_log, pending_operations>>
  /\ UNCHANGED <<debVars, ruleVars, placeVars, probeVars, bulkVars>>

\* mutant of ObserverAlive: the test of line 469 is left out
ObserverNotLookedAt(m) == FALSE

\* lines 469 and 506: self.observer and self.observer.is_alive()
ObserverAlive(m) == m.observer = "alive"

\* mutant of StatsAtStart: a start begins the counting anew
StatsResetAtStart(st) ==
  [processed_files |-> 0, successful_moves |-> 0, failed_moves |-> 0]

\* start_monitoring assigns nothing to self.stats, which __init__ has set
\* (lines 456-461)
StatsAtStart(st) == st

\* start_monitoring, lines 469-482: nothing is done while the observer is
\* alive; otherwise a new observer is created and started, and start()
\* returns when the observer's thread runs. The stop event and the
\* processing thread are as the calls before left them. The model has two
\* Thread objects.
start_monitoring ==
  /\ monitoring.ctl = "start"
  /\ IF ObserverAlive(monitoring)
     THEN monitoring' = [monitoring EXCEPT !.ctl = "idle", !.result = "True",
                                           !.log = "already running"]
     ELSE /\ ~Alive(NewThread)
          /\ monitoring' = [monitoring EXCEPT !.observer = "alive", !.ctl = "clear"]
  /\ stats' = StatsAtStart(stats)
  /\ UNCHANGED <<auto_organize, worker, op_log, pending_operations>>
  /\ UNCHANGED <<debVars, ruleVars, placeVars, probeVars, bulkVars>>

\* start_monitoring, line 485: self.stop_event.clear()
start_monitoring_clear ==
  /\ monitoring.ctl = "clear"
  /\ monitoring' = [monitoring EXCEPT !.stop_event = FALSE, !.ctl = "thread"]
  /\ UNCHANGED <<auto_organize, worker, stats, op_log, pending_operations>>
  /\ UNCHANGED <<debVars, ruleVars, placeVars, probeVars, bulkVars>>

\* start_monitoring, lines 486-490: the new Thread object is assigned and
\* started; start() returns when the thread runs
start_monitoring_thread ==
  /\ monitoring.ctl = "thread"
  /\ ~Alive(NewThread)
  /\ monitoring' = [monitoring EXCEPT !.processing_thread = NewThread,
                                      !.ctl = "return"]
  /\ worker' = [worker EXCEPT ![NewThread] = [UnstartedWorker EXCEPT !.pc = "loop"]]
  /\ UNCHANGED <<auto_organize, stats, op_log, pending_operations>>
  /\ UNCHANGED <<debVars, ruleVars, placeVars, probeVars, bulkVars>>

\* start_monitoring, lines 492-493: the start is logged and True returned
start_monitoring_return ==
  /\ monitoring.ctl = "return"
  /\ monitoring' = [monitoring EXCEPT !.ctl = "idle", !.result = "True",
                                      !.log = "started"]
  /\ UNCHANGED <<auto_organize, worker, stats, op_log, pending_operations>>
  /\ UNCHANGED <<debVars, ruleVars, placeVars, probeVars, bulkVars>>

\* start_monitoring, lines 474-482 and 495-497: Observer.start raises (the
\* desktop directory cannot be watched); the new observer is not alive, and
\* False is returned before the stop event and the thread are touched
start_monitoring_fails ==
  /\ monitoring.ctl = "start"
  /\ ~ObserverAlive(monitoring)
  /\ monitoring' = [monitoring EXCEPT !.observer = "stopped", !.ctl = "idle",
                                      !.result = "False", !.log = "start failed"]
  /\ UNCHANGED <<auto_organize, worker, stats, op_log, pending_operations>>
  /\ UNCHANGED <<debVars, ruleVars, placeVars, probeVars, bulkVars>>

\* history: the operations the threads hold inside _execute_operation
InHandNow == {worker[w].op.id : w \in {v \in Workers : Executing(v)}}

\* history: the operations in the queue
PendingNow == {pending_operations[k].id : k \in 1..Len(pending_operations)}

\* mutant of stop_monitoring_signal: the queue is emptied with the stop
stop_monitoring_signal_clearing ==
  /\ monitoring.ctl = "idle"
  /\ monitoring' = [monitoring EXCEPT !.stop_event = TRUE, !.ctl = "observer"]
  /\ op_log' = [op_log EXCEPT !.at_stop = InHandNow, !.pending_at_stop = PendingNow]
  /\ pending_operations' = <<>>
  /\ UNCHANGED <<auto_organize, worker, stats>>
  /\ UNCHANGED <<debVars, ruleVars, placeVars, probeVars, bulkVars>>

\* stop_monitoring, line 503: self.stop_event.set()
stop_monitoring_signal ==
  /\ monitoring.ctl = "idle"
  /\ monitoring' = [monitoring EXCEPT !.stop_event = TRUE, !.ctl = "observer"]
  /\ op_log' = [op_log EXCEPT !.at_stop = InHandNow, !.pending_at_stop = PendingNow]
  /\ UNCHANGED <<auto_organize, worker, stats, pending_operations>>
  /\ UNCHANGED <<debVars, ruleVars, placeVars, probeVars, bulkVars>>

\* stop_monitoring, lines 506-508: the observer, when alive, is stopped and joined
stop_monitoring_observer ==
  /\ monitoring.ctl = "observer"
  /\ monitoring' = [monitoring EXCEPT
        !.observer = IF ObserverAlive(monitoring) THEN "stopped" ELSE @,
        !.ctl = "join"]
  /\ UNCHANGED <<auto_organize, worker, stats, op_log, pending_operations>>
  /\ UNCHANGED <<debVars, ruleVars, placeVars, probeVars, bulkVars>>

\* stop_monitoring, lines 511-514: join(timeout=5) returns when the thread
\* has ended, or when the thread sleeps in a back-off longer than the
\* timeout; "monitoring stopped" is logged in both cases
stop_monitoring_join ==
  /\ monitoring.ctl = "join"
  /\ LET t == monitoring.processing_thread
     IN IF t = "none" THEN TRUE
        ELSE IF ~Alive(t) THEN TRUE
        ELSE worker[t].pc = "backoff" /\ worker[t].delay > join_timeout
  /\ monitoring' = [monitoring EXCEPT !.ctl = "idle", !.log = "stopped"]
  /\ UNCHANGED <<auto_organize, worker, stats, op_log, pending_operations>>
  /\ UNCHANGED <<debVars, ruleVars, placeVars, probeVars, bulkVars>>

\* a debounce timer of the running observer forwards an operation (lines
\* 118-124)
operation_arrives_within(limit, p, event_type) ==
  /\ ObserverAlive(monitoring)
  /\ op_log.n_ops < limit
  /\ pending_operations' = add_pending_operation(pending_operations,
        PendingOperation(op_log.n_ops + 1, p, event_type, clock))
  /\ op_log' = [op_log EXCEPT !.n_ops = @ + 1,
                              !.enqueued = Append(@, op_log.n_ops + 1)]
  /\ UNCHANGED <<monitoring, auto_organize, worker, stats>>
  /\ UNCHANGED <<debVars, ruleVars, placeVars, probeVars, bulkVars>>

operation_arrives(p, event_type) == operation_arrives_within(MaxOperations, p, event_type)

\* a delayed_process thread started before the observer was stopped wakes
\* after it: the thread is a daemon thread of its own (line 131) that
\* stop_monitoring neither joins nor cancels, and it appends as before
delayed_process_after_stop(p, event_type) ==
  /\ monitoring.observer = "stopped"
  /\ monitoring.log # "start failed"
  /\ op_log.n_ops < MaxQueued
  /\ Cardinality(op_log.late) < MaxLate
  /\ pending_operations' = add_pending_operation(pending_operations,
        PendingOperation(op_log.n_ops + 1, p, event_type, clock))
  /\ op_log' = [op_log EXCEPT !.n_ops = @ + 1,
                              !.enqueued = Append(@, op_log.n_ops + 1),
                              !.late = @ \cup {op_log.n_ops + 1}]
  /\ UNCHANGED <<monitoring, auto_organize, worker, stats>>
  /\ UNCHANGED <<debVars, ruleVars, placeVars, probeVars, bulkVars>>

\* _process_operations, line 538: while not self.stop_event.is_set()
process_operations_check(w) ==
  /\ worker[w].pc = "loop"
  /\ worker' = [worker EXCEPT ![w].pc = IF monitoring.stop_event THEN "exited" ELSE "poll"]
  /\ UNCHANGED <<monitoring, auto_organize, stats, op_log, pending_operations>>
  /\ UNCHANGED <<debVars, ruleVars, placeVars, probeVars, bulkVars>>

\* lines 541-547: the head of the queue is taken under processing_lock
process_operations_dequeue(w) ==
  /\ worker[w].pc = "poll"
  /\ pending_operations # <<>>
  /\ worker' = [worker EXCEPT ![w] = [pc |-> "execute", op |-> Head(pending_operations),
                                      rule |-> None, delay |-> 0]]
  /\ pending_operations' = Tail(pending_operations)
  /\ op_log' = [op_log EXCEPT !.dequeued = Append(@, Head(pending_operations).id)]
  /\ UNCHANGED <<monitoring, auto_organize, stats>>
  /\ UNCHANGED <<debVars, ruleVars, placeVars, probeVars, bulkVars>>

\* lines 548-550: the queue is empty, the thread sleeps 0.5 s
process_operations_sleep(w) ==
  /\ worker[w].pc = "poll"
  /\ pending_operations = <<>>
  /\ worker' = [worker EXCEPT ![w].pc = "loop"]
  /\ UNCHANGED <<monitoring, auto_organize, stats, op_log, pending_operations>>
  /\ UNCHANGED <<debVars, ruleVars, placeVars, probeVars, bulkVars>>

\* mutant of FileExists: the file is taken to be there
FileAssumed(filepath) == TRUE

\* line 568: os.path.exists(operation.filepath)
FileExists(filepath) == files[filepath] # Absent

\* mutant of ProcessedCounted: an operation is counted at its first attempt
ProcessedCountedOnce(st, operation) ==
  IF operation.retries = 0 THEN [st EXCEPT !.processed_files = @ + 1] ELSE st

\* line 561: self.stats['processed_files'] += 1
ProcessedCounted(st, operation) == [st EXCEPT !.processed_files = @ + 1]

\* _execute_operation, lines 561-570: the operation is counted; it ends here
\* when auto_organize is off or the file is gone
execute_operation_begin(w) ==
  /\ worker[w].pc = "execute"
  /\ stats' = ProcessedCounted(stats, worker[w].op)
  /\ IF ~auto_organize
     THEN /\ worker' = [worker EXCEPT ![w].pc = "loop"]
          /\ op_log' = Outcome(op_log, w, "disabled")
     ELSE IF ~FileExists(worker[w].op.filepath)
     THEN /\ worker' = [worker EXCEPT ![w].pc = "loop"]
          /\ op_log' = Outcome(op_log, w, "missing")
     ELSE /\ worker' = [worker EXCEPT ![w].pc = "match"]
          /\ UNCHANGED op_log
  /\ UNCHANGED <<monitoring, auto_organize, pending_operations>>
  /\ UNCHANGED <<debVars, ruleVars, placeVars, probeVars, bulkVars>>

\* line 573: find_matching_rule(operation.filepath) is called
execute_operation_match(w) ==
  /\ worker[w].pc = "match"
  /\ matchers[w].pc = "idle"
  /\ find_call(w, worker[w].op.filepath)

\* mutant of RuleFound: a placement is tried without a rule as well
RuleOrNone(rule) == TRUE

\* line 574: if not rule
RuleFound(rule) == rule # None

\* lines 573-576: the call has returned; without a rule the operation ends
execute_operation_matched(w) ==
  /\ worker[w].pc = "match"
  /\ matchers[w].pc = "returned"
  /\ matchers' = [matchers EXCEPT ![w].pc = "idle"]
  /\ IF ~RuleFound(matchers[w].result)
     THEN /\ worker' = [worker EXCEPT ![w].pc = "loop"]
          /\ op_log' = Outcome(op_log, w, "unmatched")
     ELSE /\ worker' = [worker EXCEPT ![w].pc = "place", ![w].rule = matchers[w].result]
          /\ op_log' = [op_log EXCEPT !.attempts[worker[w].op.id] = @ + 1]
  /\ UNCHANGED <<monitoring, auto_organize, stats, pending_operations>>
  /\ UNCHANGED <<files, current_rules, rule_lists, rule_cache, loader, last_two, budget>>
  /\ UNCHANGED <<debVars, placeVars, probeVars, bulkVars>>

\* mutant of RegionOf: a region that holds an icon of the engine already is
\* passed over for the region across the screen
RegionOfSpill(rule) ==
  IF rule = None THEN "none"
  ELSE IF \E i \in 1..Len(committed) : committed[i].region_id = Rule(rule).target_region
       THEN (IF Rule(rule).target_region = "top_left" THEN "bottom_right" ELSE "top_left")
       ELSE Rule(rule).target_region

\* the region of the rule the worker holds; a call without a rule fails on
\* rule.target_region
RegionOf(rule) == IF rule = None THEN "none" ELSE Rule(rule).target_region

\* lines 579-580: place_icon_in_region(filename, rule.target_region) is called
execute_operation_place(w) ==
  /\ worker[w].pc = "place"
  /\ placers[w].pc = "idle"
  /\ place_call(w, worker[w].op.filepath, RegionOf(worker[w].rule))

\* mutant of RetriesLeft: a failed operation is always tried again
RetriesNeverRunOut(operation) == TRUE

\* mutant of RetriesLeft: one more retry is granted
RetriesLeftOrEqual(operation) == operation.retries <= operation.max_retries

\* line 589: operation.retries < operation.max_retries
RetriesLeft(operation) == operation.retries < operation.max_retries

\* mutant of BackoffDelay: the exponent is the counter before its increment
BackoffBeforeIncrement(retries) == 2 ^ (retries - 1)

\* line 594: time.sleep(2 ** operation.retries), retries already incremented
BackoffDelay(retries) == 2 ^ retries

\* mutant of SuccessCounted: the success of a retried operation is not counted
SuccessOfFirstAttemptCounted(st, operation) ==
  IF operation.retries = 0 THEN [st EXCEPT !.successful_moves = @ + 1] ELSE st

\* lines 582-583: self.stats['successful_moves'] += 1
SuccessCounted(st, operation) == [st EXCEPT !.successful_moves = @ + 1]

\* mutant of execute_operation_placed: a failed placement is an exception
\* that leaves _process_operations
execute_operation_placed_or_raise(w) ==
  /\ worker[w].pc = "place"
  /\ placers[w].pc = "returned"
  /\ placers' = [placers EXCEPT ![w].pc = "idle"]
  /\ IF placers[w].result
     THEN /\ stats' = [stats EXCEPT !.successful_moves = @ + 1]
          /\ worker' = [worker EXCEPT ![w].pc = "loop"]
          /\ op_log' = Outcome(op_log, w, "placed")
     ELSE /\ stats' = [stats EXCEPT !.failed_moves = @ + 1]
          /\ worker' = [worker EXCEPT ![w].pc = "exited"]
          /\ op_log' = Outcome(op_log, w, "abandoned")
  /\ UNCHANGED <<monitoring, auto_organize, pending_operations>>
  /\ UNCHANGED <<screen, listview, icon_count, regions, occupied_positions,
                 placement_lock, committed, n_placed>>
  /\ UNCHANGED <<debVars, ruleVars, probeVars, bulkVars>>

\* lines 582-599: the call has returned; a success is counted, a failure is
\* counted and the operation prepared for its retry or given up
execute_operation_placed(w) ==
  /\ worker[w].pc = "place"
  /\ placers[w].pc = "returned"
  /\ placers' = [placers EXCEPT ![w].pc = "idle"]
  /\ IF placers[w].result
     THEN /\ stats' = SuccessCounted(stats, worker[w].op)
          /\ worker' = [worker EXCEPT ![w].pc = "loop"]
          /\ op_log' = Outcome(op_log, w, "placed")
     ELSE /\ stats' = [stats EXCEPT !.failed_moves = @ + 1]
          /\ IF RetriesLeft(worker[w].op)
             THEN /\ worker' = [worker EXCEPT ![w] =
                       [@ EXCEPT !.pc = "backoff",
                                 !.op = [@ EXCEPT !.retries = @ + 1, !.timestamp = clock],
                                 !.delay = BackoffDelay(worker[w].op.retries + 1)]]
                  /\ UNCHANGED op_log
             ELSE /\ worker' = [worker EXCEPT ![w].pc = "loop"]
                  /\ op_log' = Outcome(op_log, w, "abandoned")
  /\ UNCHANGED <<monitoring, auto_organize, pending_operations>>
  /\ UNCHANGED <<screen, listview, icon_count, regions, occupied_positions,
                 placement_lock, committed, n_placed>>
  /\ UNCHANGED <<debVars, ruleVars, probeVars, bulkVars>>

\* mutant of execute_operation_requeue: the operation is not appended after
\* the sleep
execute_operation_requeue_forgotten(w) ==
  /\ worker[w].pc = "backoff"
  /\ worker' = [worker EXCEPT ![w].pc = "loop"]
  /\ UNCHANGED <<monitoring, auto_organize, stats, op_log, pending_operations>>
  /\ UNCHANGED <<debVars, ruleVars, placeVars, probeVars, bulkVars>>

\* mutant of execute_operation_requeue: the stop event ends the sleep and the
\* thread, and the operation is not appended
execute_operation_requeue_unless_stopped(w) ==
  /\ worker[w].pc = "backoff"
  /\ IF monitoring.stop_event
     THEN /\ worker' = [worker EXCEPT ![w].pc = "exited"]
          /\ UNCHANGED <<pending_operations, op_log>>
     ELSE /\ pending_operations' = add_pending_operation(pending_operations, worker[w].op)
          /\ worker' = [worker EXCEPT ![w].pc = "loop"]
          /\ op_log' = [op_log EXCEPT !.enqueued = Append(@, worker[w].op.id)]
  /\ UNCHANGED <<monitoring, auto_organize, stats>>
  /\ UNCHANGED <<debVars, ruleVars, placeVars, probeVars, bulkVars>>

\* lines 594-595: after time.sleep(2 ** operation.retries) the operation is
\* appended to the queue again
execute_operation_requeue(w) ==
  /\ worker[w].pc = "backoff"
  /\ pending_operations' = add_pending_operation(pending_operations, worker[w].op)
  /\ worker' = [worker EXCEPT ![w].pc = "loop"]
  /\ op_log' = [op_log EXCEPT !.enqueued = Append(@, worker[w].op.id)]
  /\ UNCHANGED <<monitoring, auto_organize, stats>>
  /\ UNCHANGED <<debVars, ruleVars, placeVars, probeVars, bulkVars>>

\* a file of the watched directory is deleted
FileRemoved(p) == FileChange(p, Absent)

\* the steps of a processing thread
WorkerStep(w) ==
  \/ process_operations_check(w)
  \/ process_operations_dequeue(w)
  \/ process_operations_sleep(w)
  \/ execute_operation_begin(w)
  \/ execute_operation_match(w)
  \/ execute_operation_matched(w)
  \/ execute_operation_place(w)
  \/ execute_operation_placed(w)
  \/ execute_operation_requeue(w)
  \/ find_cache_in(w)
  \/ find_cache_get(w)
  \/ find_analyze(w)
  \/ find_iter_begin(w)
  \/ find_iter(w)
  \/ find_cache_put(w)
  \/ place_acquire(w)
  \/ place_scan(w)
  \/ place_set_position(w)
  \/ place_commit(w)

WorkNext ==
  \/ monitoring.observer = "none" /\ start_monitoring_call
  \/ start_monitoring
  \/ start_monitoring_clear
  \/ start_monitoring_thread
  \/ start_monitoring_return
  \/ \E p \in Paths, e \in EventTypes : operation_arrives(p, e)
  \/ \E w \in Workers : process_operations_check(w)
  \/ \E w \in Workers : process_operations_dequeue(w)
  \/ \E w \in Workers : process_operations_sleep(w)
  \/ \E w \in Workers : execute_operation_begin(w)
  \/ \E w \in Workers : execute_operation_match(w)
  \/ \E w \in Workers : execute_operation_matched(w)
  \/ \E w \in Workers : execute_operation_place(w)
  \/ \E w \in Workers : execute_operation_placed(w)
  \/ \E w \in Workers : execute_operation_requeue(w)
  \/ \E w \in Workers : find_cache_in(w)
  \/ \E w \in Workers : find_cache_get(w)
  \/ \E w \in Workers : find_analyze(w)
  \/ \E w \in Workers : find_iter_begin(w)
  \/ \E w \in Workers : find_iter(w)
  \/ \E w \in Workers : find_cache_put(w)
  \/ \E w \in Workers : place_acquire(w)
  \/ \E w \in Workers : place_scan(w)
  \/ \E w \in Workers : place_set_position(w)
  \/ \E w \in Workers : place_commit(w)
  \/ \E ruleset \in WorkerRuleSets : budget.loads = 0 /\ load_rules_set(ruleset)
  \/ load_rules_clear
  \/ load_rules_sort_begin
  \/ load_rules_sort_end
  \/ \E p \in Paths : FileRemoved(p)

\* the queue worked on by the processing thread, the rules loaded before,
\* the engine started once
QueueNext ==
  \/ monitoring.observer = "none" /\ start_monitoring_call
  \/ start_monitoring
  \/ start_monitoring_clear
  \/ start_monitoring_thread
  \/ start_monitoring_return
  \/ \E p \in Paths : operation_arrives_within(MaxQueued, p, "created")
  \/ \E w \in Workers : WorkerStep(w)

\* the same while files are deleted under the worker's hands
IsolateNext ==
  \/ QueueNext
  \/ \E p \in Paths : FileRemoved(p)

\* the same while icons come and go on the desktop, so that a placement
\* that failed succeeds at a retry
RetryNext ==
  \/ QueueNext
  \/ \E count \in 0..MaxIcons : icons_change(count)

\* the queue over a stop and the start after it: stop_monitoring is called
\* once with operations in the queue; operations arrive while the observer
\* runs and from timers that wake after the stop
StopNext ==
  \/ ~ObserverAlive(monitoring) /\ start_monitoring_call
  \/ start_monitoring
  \/ start_monitoring_clear
  \/ start_monitoring_thread
  \/ start_monitoring_return
  \/ pending_operations # <<>> /\ op_log.pending_at_stop = {} /\ stop_monitoring_signal
  \/ stop_monitoring_observer
  \/ stop_monitoring_join
  \/ \E p \in Paths : operation_arrives(p, "created")
  \/ \E p \in Paths : delayed_process_after_stop(p, "created")
  \/ \E w \in Workers : WorkerStep(w)

\* a started thread is scheduled again and again, and its sleeps end
QueueFairness ==
  /\ WF_vars(\E w \in Workers : WorkerStep(w))
  /\ WF_vars(start_monitoring_clear)
  /\ WF_vars(start_monitoring_thread)
  /\ WF_vars(start_monitoring_return)

\* the queue worked on while the engine is started and stopped
LifeNext ==
  \/ start_monitoring_call
  \/ start_monitoring
  \/ start_monitoring_clear
  \/ start_monitoring_thread
  \/ start_monitoring_return
  \/ start_monitoring_fails
  \/ stop_monitoring_signal
  \/ stop_monitoring_observer
  \/ stop_monitoring_join
  \/ \E p \in Paths, e \in EventTypes : operation_arrives(p, e)
  \/ \E w \in Workers : WorkerStep(w)

\* ------------------------------------------------------------------------
\* ExecutionEngine.organize_all_desktop_icons, called from the "caller" thread
\* ------------------------------------------------------------------------
RuleNames == {RulePool[r].name : r \in RuleIds}
NoResults ==
  [total_files |-> 0, organized_files |-> 0, failed_files |-> 0, skipped_files |-> 0,
   rules_applied |-> [n \in RuleNames |-> 0]]
\* where the icon of each file was put last: the position of its last write
\* the icon manager accepted
RECURSIVE LastPosition(_, _)
LastPosition(log, f) ==
  IF log = <<>> THEN NoPosition
  ELSE IF log[Len(log)].filename = f THEN log[Len(log)].position
  ELSE LastPosition(SubSeq(log, 1, Len(log) - 1), f)
Sits == [f \in Paths |-> LastPosition(committed, f)]

\* no call of the icon manager's arranging functions has been made
IdleArranger ==
  [pc |-> "idle", runs |-> 0, region_id |-> "none", n_icons |-> 0, todo |-> <<>>,
   success_count |-> 0, result |-> FALSE]

BulkInit ==
  organizer = [pc |-> "idle", runs |-> 0, listing |-> <<>>, todo |-> <<>>,
               rule |-> None, results |-> NoResults,
               handled |-> <<>>, placed_before |-> 0,
               failures |-> <<>>, before |-> [f \in Paths |-> NoPosition],
               error |-> "none"]
  /\ arranger = IdleArranger

\* os.listdir gives the files in any order
Listings ==
  LET present == {f \in DOMAIN files : files[f] # Absent}
  IN {l \in UNION {[1..n -> present] : n \in 0..Cardinality(present)} :
        /\ Len(l) = Cardinality(present)
        /\ \A i, j \in 1..Len(l) : i # j => l[i] # l[j]}

\* lines 609-623: the files of the desktop are listed and the result prepared
organize_begin(listing) ==
  /\ organizer.pc \in {"idle", "returned"}
  /\ organizer.runs < MaxOrganize
  /\ organizer' = [organizer EXCEPT
        !.pc = IF listing = <<>> THEN "returned" ELSE "find",
        !.runs = @ + 1, !.listing = listing, !.todo = listing,
        !.rule = None,
        !.results = [NoResults EXCEPT !.total_files = Len(listing)],
        !.handled = <<>>, !.placed_before = n_placed, !.failures = <<>>,
        !.before = Sits, !.error = "none"]
  /\ UNCHANGED <<debVars, pending_operations, ruleVars, placeVars, workVars, probeVars>>
  /\ UNCHANGED arranger

\* lines 612 and 653-655: os.listdir raises (the desktop directory is gone or
\* cannot be read); the results dictionary is never made, the error is
\* logged and {'error': str(e)} returned
organize_begin_fails ==
  /\ organizer.pc \in {"idle", "returned"}
  /\ organizer.runs < MaxOrganize
  /\ organizer' = [organizer EXCEPT
        !.pc = "returned", !.runs = @ + 1, !.listing = <<>>, !.todo = <<>>,
        !.rule = None, !.results = NoResults,
        !.handled = <<>>, !.placed_before = n_placed, !.failures = <<>>,
        !.before = Sits, !.error = "os.listdir"]
  /\ UNCHANGED <<debVars, pending_operations, ruleVars, placeVars, workVars, probeVars>>
  /\ UNCHANGED arranger

\* lines 651 and 655: what organize_all_desktop_icons returns
organize_result(o) ==
  IF o.error # "none" THEN [error |-> o.error] ELSE o.results

\* line 629: find_matching_rule(filepath) is called for the next file
organize_find ==
  /\ organizer.pc = "find"
  /\ organizer.todo # <<>>
  /\ matchers["caller"].pc = "idle"
  /\ find_call("caller", Head(organizer.todo))

\* mutant of SkipCounted: a file without a rule is not counted
SkipNotCounted(results) == results

\* line 632: results['skipped_files'] += 1
SkipCounted(results) == [results EXCEPT !.skipped_files = @ + 1]

\* lines 629-633: the call has returned; a file without a rule is skipped
organize_found ==
  /\ organizer.pc = "find"
  /\ matchers["caller"].pc = "returned"
  /\ matchers' = [matchers EXCEPT !["caller"].pc = "idle"]
  /\ IF matchers["caller"].result = None
     THEN organizer' = [organizer EXCEPT
            !.results = SkipCounted(@), !.todo = Tail(@),
            !.handled = Append(@, Head(organizer.todo)),
            !.pc = IF Tail(organizer.todo) = <<>> THEN "returned" ELSE "find"]
     ELSE organizer' = [organizer EXCEPT !.pc = "place",
                                         !.handled = Append(@, Head(organizer.todo)),
                                         !.rule = matchers["caller"].result]
  /\ UNCHANGED <<files, current_rules, rule_lists, rule_cache, loader, last_two, budget>>
  /\ UNCHANGED <<debVars, pending_operations, placeVars, workVars, probeVars>>
  /\ UNCHANGED arranger

\* lines 636-637: place_icon_in_region(filename, rule.target_region) is called
organize_place ==
  /\ organizer.pc = "place"
  /\ placers["caller"].pc = "idle"
  /\ place_call("caller", Head(organizer.todo), RegionOf(organizer.rule))

\* mutant of AfterFailure: the pass ends at the first failure
AfterFailureStop(todo) == <<>>

\* lines 642-643: a failure is counted and the loop goes on with the next file
AfterFailure(todo) == Tail(todo)

\* mutant of organize_placed: the outcome is counted in the engine's stats
\* as well
organize_placed_counted ==
  /\ organizer.pc = "place"
  /\ placers["caller"].pc = "returned"
  /\ placers' = [placers EXCEPT !["caller"].pc = "idle"]
  /\ LET rest == IF placers["caller"].result THEN Tail(organizer.todo)
                 ELSE AfterFailure(organizer.todo)
     IN organizer' = [organizer EXCEPT
          !.results = IF placers["caller"].result
                      THEN [@ EXCEPT !.organized_files = @ + 1,
                                     !.rules_applied[Rule(organizer.rule).name] = @ + 1]
                      ELSE [@ EXCEPT !.failed_files = @ + 1],
          !.failures = IF placers["caller"].result THEN @
                       ELSE Append(@, Head(organizer.todo)),
          !.todo = rest,
          !.pc = IF rest = <<>> THEN "returned" ELSE "find"]
  /\ stats' = IF placers["caller"].result
              THEN [stats EXCEPT !.successful_moves = @ + 1]
              ELSE [stats EXCEPT !.failed_moves = @ + 1]
  /\ UNCHANGED <<screen, listview, icon_count, regions, occupied_positions,
                 placement_lock, committed, n_placed>>
  /\ UNCHANGED <<monitoring, auto_organize, worker, op_log>>
  /\ UNCHANGED <<debVars, pending_operations, ruleVars, probeVars>>
  /\ UNCHANGED arranger

\* lines 639-643: the call has returned; the file is counted as organized,
\* under the name of its rule, or as failed
organize_placed ==
  /\ organizer.pc = "place"
  /\ placers["caller"].pc = "returned"
  /\ placers' = [placers EXCEPT !["caller"].pc = "idle"]
  /\ LET rest == IF placers["caller"].result THEN Tail(organizer.todo)
                 ELSE AfterFailure(organizer.todo)
     IN organizer' = [organizer EXCEPT
          !.results = IF placers["caller"].result
                      THEN [@ EXCEPT !.organized_files = @ + 1,
                                     !.rules_applied[Rule(organizer.rule).name] = @ + 1]
                      ELSE [@ EXCEPT !.failed_files = @ + 1],
          !.failures = IF placers["caller"].result THEN @
                       ELSE Append(@, Head(organizer.todo)),
          !.todo = rest,
          !.pc = IF rest = <<>> THEN "returned" ELSE "find"]
  /\ UNCHANGED <<screen, listview, icon_count, regions, occupied_positions,
                 placement_lock, committed, n_placed>>
  /\ UNCHANGED <<debVars, pending_operations, ruleVars, workVars, probeVars>>
  /\ UNCHANGED arranger

\* organize_all_desktop_icons called again and again while files disappear
BulkNext ==
  \/ \E listing \in Listings : organize_begin(listing)
  \/ organize_begin_fails
  \/ organize_find
  \/ organize_found
  \/ organize_place
  \/ organize_placed
  \/ find_cache_in("caller")
  \/ find_cache_get("caller")
  \/ find_analyze("caller")
  \/ find_iter_begin("caller")
  \/ find_iter("caller")
  \/ find_cache_put("caller")
  \/ place_acquire("caller")
  \/ place_scan("caller")
  \/ place_set_position("caller")
  \/ place_commit("caller")
  \/ \E p \in Paths : FileRemoved(p)

\* one call of organize_all_desktop_icons from the thread that owns the
\* engine while the processing thread works on the queue
FrameNext ==
  \/ monitoring.observer = "none" /\ start_monitoring_call
  \/ start_monitoring
  \/ start_monitoring_clear
  \/ start_monitoring_thread
  \/ start_monitoring_return
  \/ \E p \in Paths : operation_arrives(p, "created")
  \/ WorkerStep("worker")
  \/ \E listing \in Listings : organizer.runs = 0 /\ organize_begin(listing)
  \/ organizer.runs = 0 /\ organize_begin_fails
  \/ organize_find
  \/ organize_found
  \/ organize_place
  \/ organize_placed
  \/ find_cache_in("caller")
  \/ find_cache_get("caller")
  \/ find_analyze("caller")
  \/ find_iter_begin("caller")
  \/ find_iter("caller")
  \/ find_cache_put("caller")
  \/ place_acquire("caller")
  \/ place_scan("caller")
  \/ place_set_position("caller")
  \/ place_commit("caller")

\* ------------------------------------------------------------------------
\* IconManager.arrange_icons_in_region, arrange_icons_in_grid, move_icon:
\* the icon manager's own ways to set icon positions, which take no lock of
\* the placement engine and do not touch its occupied set
\* ------------------------------------------------------------------------
\* _calculate_grid_positions, lines 290-321: the i-th icon (from 0) gets the
\* i-th cell, row by row; an icon whose cell does not fit the region is left
\* out. The result is the icons that got a cell, in their order
RECURSIVE grid_positions_from(_, _, _)
grid_positions_from(icons, region, i) ==
  IF icons = <<>> THEN <<>>
  ELSE LET icon_size == region.grid_size
           margin == region.margin
           available_width == region.width - 2 * margin
           per_row == available_width \div (icon_size + margin)
           icons_per_row == IF per_row >= 1 THEN per_row ELSE 1
           row == i \div icons_per_row
           col == i % icons_per_row
           x == region.x + margin + col * (icon_size + margin)
           y == region.y + margin + row * (icon_size + margin)
           rest == grid_positions_from(Tail(icons), region, i + 1)
       IN IF x + icon_size <= region.x + region.width
             /\ y + icon_size <= region.y + region.height
          THEN <<[filename |-> Head(icons), position |-> <<x, y>>]>> \o rest
          ELSE rest
calculate_grid_positions(icons, region) == grid_positions_from(icons, region, 0)

\* the icon lists of the calls: some of the watched paths, each once
ArrangeLists ==
  {l \in UNION {[1..n -> Paths] : n \in 1..Cardinality(Paths)} :
     \A i, j \in 1..Len(l) : i # j => l[i] # l[j]}
\* the coordinates move_icon is called with: a cell, and a point that is on
\* the large screen only
MovePositions == {<<5, 5>>, <<60, 60>>}

\* the arranger after the last icon of its list
ArrangeDone(a) ==
  IF a.todo = <<>>
  THEN [a EXCEPT !.pc = "returned", !.result = (a.success_count = a.n_icons)]
  ELSE [a EXCEPT !.pc = "set"]

\* arrange_icons_in_grid(icons, region_id), lines 415-430, and
\* arrange_icons_in_region up to its loop (lines 260-276): the region is
\* looked up in the catalog and the cells are computed
arrange_icons_in_grid(icons, region_id) ==
  /\ arranger.pc \in {"idle", "returned"}
  /\ arranger.runs < MaxArrange
  /\ LET region == target_region(regions, region_id)
     IN arranger' =
          IF region = NoRegion
          THEN [IdleArranger EXCEPT !.pc = "returned", !.runs = arranger.runs + 1,
                                    !.region_id = region_id, !.n_icons = Len(icons)]
          ELSE ArrangeDone([IdleArranger EXCEPT
                   !.runs = arranger.runs + 1, !.region_id = region_id,
                   !.n_icons = Len(icons),
                   !.todo = calculate_grid_positions(icons, region)])
  /\ UNCHANGED <<debVars, pending_operations, ruleVars, placeVars, workVars, probeVars>>
  /\ UNCHANGED organizer

\* move_icon(filename, x, y), lines 410-412: set_icon_position is called
move_icon(filename, x, y) ==
  /\ arranger.pc \in {"idle", "returned"}
  /\ arranger.runs < MaxArrange
  /\ arranger' = [IdleArranger EXCEPT
        !.pc = "set", !.runs = arranger.runs + 1, !.n_icons = 1,
        !.todo = <<[filename |-> filename, position |-> <<x, y>>]>>]
  /\ UNCHANGED <<debVars, pending_operations, ruleVars, placeVars, workVars, probeVars>>
  /\ UNCHANGED organizer

\* set_icon_position up to its sleep, called at line 279 or 412: a refused
\* icon is not counted
arrange_set_position ==
  /\ arranger.pc = "set"
  /\ LET icon == Head(arranger.todo)
         success == set_icon_position(icon.filename, icon.position[1], icon.position[2],
                                      screen[1], screen[2],
                                      files[icon.filename] # Absent)
     IN arranger' = IF success THEN [arranger EXCEPT !.pc = "sleep"]
                    ELSE ArrangeDone([arranger EXCEPT !.todo = Tail(@)])
  /\ UNCHANGED <<debVars, pending_operations, ruleVars, placeVars, workVars, probeVars>>
  /\ UNCHANGED organizer

\* the sleep of set_icon_position is over and True returned (lines 245-248);
\* line 280 counts the icon. Neither placement_lock nor occupied_positions
\* is used
arrange_position_set ==
  /\ arranger.pc = "sleep"
  /\ LET icon == Head(arranger.todo)
     IN /\ committed' = Append(committed, [filename |-> icon.filename,
                                           region_id |-> arranger.region_id,
                                           position |-> icon.position,
                                           by |-> "set_icon_position"])
        /\ arranger' = ArrangeDone([arranger EXCEPT !.todo = Tail(@),
                                                    !.success_count = @ + 1])
  /\ UNCHANGED <<screen, listview, icon_count, regions, occupied_positions,
                 placement_lock, placers, n_placed>>
  /\ UNCHANGED <<debVars, pending_operations, ruleVars, workVars, probeVars>>
  /\ UNCHANGED organizer

\* place_icon_in_region called while icons are arranged and moved through
\* the icon manager and files are deleted
ArrangeNext ==
  \/ \E f \in Paths, r \in RegionIds : place_begin("caller", f, r)
  \/ place_acquire("caller")
  \/ place_scan("caller")
  \/ place_set_position("caller")
  \/ place_commit("caller")
  \/ \E icons \in ArrangeLists, r \in RegionIds : arrange_icons_in_grid(icons, r)
  \/ \E f \in Paths, c \in MovePositions : move_icon(f, c[1], c[2])
  \/ arrange_set_position
  \/ arrange_position_set
  \/ \E p \in Paths : FileRemoved(p)

\* no function of the engine has been called on its own
NoProbe == [fn |-> "none"]
ProbeInit == probe = NoProbe

\* ------------------------------------------------------------------------
\* ExecutionEngine.get_statistics, called from the thread that owns the engine
\* ------------------------------------------------------------------------
\* mutant of observer_is_alive: monitoring counts as active until the stop
\* event is set
stop_event_clear(m) == ~m.stop_event

\* line 671: self.observer.is_alive() if self.observer else False
observer_is_alive(m) == IF m.observer = "none" THEN FALSE ELSE ObserverAlive(m)

\* lines 660-669: the counters are read, one after the other, without a lock
get_statistics_call ==
  /\ probe = NoProbe
  /\ probe' = [fn |-> "get_statistics", pc |-> "pending_operations",
               processed_files |-> stats.processed_files,
               successful_moves |-> stats.successful_moves,
               failed_moves |-> stats.failed_moves,
               pending_operations |-> -1, monitoring_active |-> FALSE]
  /\ UNCHANGED notProbeVars

\* line 670: len(self.pending_operations), without operation_lock
get_statistics_pending ==
  /\ probe.fn = "get_statistics"
  /\ probe.pc = "pending_operations"
  /\ probe' = [probe EXCEPT !.pc = "monitoring_active",
                            !.pending_operations = Len(pending_operations)]
  /\ UNCHANGED notProbeVars

\* lines 671-672: the observer is asked and the dictionary returned
get_statistics_active ==
  /\ probe.fn = "get_statistics"
  /\ probe.pc = "monitoring_active"
  /\ probe' = [probe EXCEPT !.pc = "returned",
                            !.monitoring_active = observer_is_alive(monitoring)]
  /\ UNCHANGED notProbeVars

\* get_statistics called once, at any moment of the life of an engine that
\* is started once (or fails to start), works on its queue and is stopped
StatsNext ==
  \/ monitoring.observer = "none" /\ start_monitoring_call
  \/ start_monitoring
  \/ start_monitoring_clear
  \/ start_monitoring_thread
  \/ start_monitoring_return
  \/ start_monitoring_fails
  \/ stop_monitoring_signal
  \/ stop_monitoring_observer
  \/ stop_monitoring_join
  \/ \E p \in Paths : operation_arrives(p, "created")
  \/ WorkerStep("worker")
  \/ get_statistics_call
  \/ get_statistics_pending
  \/ get_statistics_active

\* ------------------------------------------------------------------------
\* AIStrategyEngine._validate_and_optimize_rules and the load_rules after it
\* ------------------------------------------------------------------------
\* IconPlacementRule; conditions is the set of the items of the condition map
GeneratedRule(id, nm, conds, region, prio) ==
  [rule_id |-> id, name |-> nm, conditions |-> conds,
   target_region |-> region, priority |-> prio]

\* a key the answer of the language model does not have
Missing == "<missing>"
\* dict.get(key, default)
get(value, default) == IF value = Missing THEN default ELSE value
\* a rule of the answer: the keys 'pattern' and 'target_region', each there
\* or not; the target region is free text
AnswerPatterns == {"*.pdf", Missing}
AnswerRegions ==
  {"top_left", "top_right", "bottom_left", "bottom_right", "center", Missing}
AnswerRules == [pattern : AnswerPatterns, target_region : AnswerRegions]
\* rules_dict.get("rules", []) of the answers ai_manager.generate_rules returns
Answers == UNION {[1..n -> AnswerRules] : n \in 0..MaxRules}

\* f"{i:03d}"
Pad3(i) ==
  IF i < 10 THEN "00" \o ToString(i)
  ELSE IF i < 100 THEN "0" \o ToString(i) ELSE ToString(i)
\* line 561: the name is the word for "rule" (written here in Latin
\* letters), an underscore and the number of the rule
RuleNameOf(i) == "guize_" \o ToString(i)
\* line 565: max(1, 100 - i * 10), i counted from 0
PriorityOf(i) == IF 100 - (i - 1) * 10 >= 1 THEN 100 - (i - 1) * 10 ELSE 1

\* _convert_to_pydantic_ruleset, lines 550-566: the i-th rule of the answer
\* gets its id, name and priority from its place in the answer
convert_to_pydantic_ruleset(answer) ==
  [i \in 1..Len(answer) |->
     GeneratedRule("groq_rule_" \o Pad3(i), RuleNameOf(i),
                   {<<"pattern", get(answer[i].pattern, "*")>>},
                   get(answer[i].target_region, "others"),
                   PriorityOf(i))]

valid_regions == {"top_left", "top_right", "bottom_left", "bottom_right"}

\* mutant of validate_single_rule: the target region is not looked at
validate_single_rule_any_region(rule) ==
  /\ rule.rule_id # "" /\ rule.name # ""
  /\ 1 <= rule.priority /\ rule.priority <= 100
  /\ rule.conditions # {}

\* _validate_single_rule, lines 407-431
validate_single_rule(rule) ==
  /\ rule.rule_id # "" /\ rule.name # ""
  /\ rule.target_region \in valid_regions
  /\ 1 <= rule.priority /\ rule.priority <= 100
  /\ rule.conditions # {}

\* list.sort(key=lambda r: r.priority, reverse=True): stable, highest first
RECURSIVE insert_by_priority(_, _)
insert_by_priority(sorted, rule) ==
  IF sorted = <<>> THEN <<rule>>
  ELSE IF Head(sorted).priority >= rule.priority
       THEN <<Head(sorted)>> \o insert_by_priority(Tail(sorted), rule)
       ELSE <<rule>> \o sorted
RECURSIVE sort_by_priority(_)
sort_by_priority(rules) ==
  IF rules = <<>> THEN <<>>
  ELSE insert_by_priority(sort_by_priority(SubSeq(rules, 1, Len(rules) - 1)),
                          rules[Len(rules)])

\* lines 376-380: the rules that pass, in their order
RECURSIVE valid_rules(_)
valid_rules(rules) ==
  IF rules = <<>> THEN <<>>
  ELSE IF validate_single_rule(Head(rules))
       THEN <<Head(rules)>> \o valid_rules(Tail(rules))
       ELSE valid_rules(Tail(rules))

\* lines 386-391: the first rule of each name
RECURSIVE deduped_rules(_, _)
deduped_rules(rules, seen_names) ==
  IF rules = <<>> THEN <<>>
  ELSE IF Head(rules).name \notin seen_names
       THEN <<Head(rules)>> \o deduped_rules(Tail(rules), seen_names \cup {Head(rules).name})
       ELSE deduped_rules(Tail(rules), seen_names)

\* _validate_and_optimize_rules, lines 370-405
validate_and_optimize_rules(rules) ==
  deduped_rules(sort_by_priority(valid_rules(rules)), {})

\* generate_rules_from_llm (lines 217-227) converts the answer and validates
\* the converted rule set, and _on_generate_rules (main.py, line 366) loads
\* what it returns: load_rules keeps the rule set and sorts it
generate_and_load(answer) ==
  /\ probe = NoProbe
  /\ LET rules == convert_to_pydantic_ruleset(answer)
         validated == validate_and_optimize_rules(rules)
     IN probe' = [fn |-> "generate_and_load", answer |-> answer, rules |-> rules,
                  validated |-> validated,
                  current_rules |-> sort_by_priority(validated)]
  /\ UNCHANGED notProbeVars

\* the rules of the rule sets _validate_and_optimize_rules is called with on
\* its own. IconPlacementRule (lines 48-56) constrains no field, so a rule
\* set may hold rules of one name at different and at equal priorities and
\* rules with an empty id, an empty name, an unknown region, a priority out
\* of range or an empty condition map
RulesOfEveryShape ==
  { GeneratedRule("r1", "A", {<<"pattern", "*.pdf">>}, "top_left", 50),
    GeneratedRule("r2", "A", {<<"pattern", "*">>}, "bottom_right", 100),
    GeneratedRule("r3", "A", {<<"pattern", "*.png">>}, "top_right", 100),
    GeneratedRule("r4", "B", {<<"pattern", "*">>}, "bottom_left", 1),
    GeneratedRule("", "B", {<<"pattern", "*">>}, "top_left", 50),
    GeneratedRule("r6", "", {<<"pattern", "*">>}, "top_left", 50),
    GeneratedRule("r7", "B", {<<"pattern", "*">>}, "others", 100),
    GeneratedRule("r8", "B", {<<"pattern", "*">>}, "top_left", 0),
    GeneratedRule("r9", "B", {<<"pattern", "*">>}, "top_left", 101),
    GeneratedRule("r10", "B", {}, "top_left", 100) }
RulesetsOfEveryShape == UNION {[1..n -> RulesOfEveryShape] : n \in 0..MaxRules}

\* _validate_and_optimize_rules(ruleset) called on its own (lines 370-405)
validate_and_optimize_rules_call(rules) ==
  /\ probe = NoProbe
  /\ probe' = [fn |-> "validate_and_optimize_rules", rules |-> rules,
               validated |-> validate_and_optimize_rules(rules)]
  /\ UNCHANGED notProbeVars

\* a rule set of the language model generated and loaded, or a rule set of
\* any shape validated
ValidateNext ==
  \/ \E answer \in Answers : generate_and_load(answer)
  \/ \E rules \in RulesetsOfEveryShape : validate_and_optimize_rules_call(rules)

\* ------------------------------------------------------------------------
\* RuleEngine._rule_matches_file called on its own
\* ------------------------------------------------------------------------

\* the condition values, the file names and the sizes of the calls
TypeConds ==
  {NoCond, StrCond("document"), ListCond(<<"document">>), ListCond(<<"image", "other">>)}
ExtConds ==
  {NoCond, StrCond(".pdf"), ListCond(<<".pdf">>), ListCond(<<".PNG", ".txt">>)}
SizeConds ==
  {NoCond, StrCond("tiny"), ListCond(<<"tiny">>), ListCond(<<>>)}
KeywordConds ==
  {NoCond, StrCond("pdf"), ListCond(<<"pdf">>), ListCond(<<"wendang">>),
   ListCond(<<"PNG", "job">>)}
PatternConds ==
  {NoCond, StrCond("a"), ListCond(<<"a">>), ListCond(<<"B.P", "zz">>)}
ConditionSets ==
  [file_type : TypeConds, extensions : ExtConds, size_range : SizeConds,
   keywords : KeywordConds, name_patterns : PatternConds]
ProbeFiles == {"a.pdf", "B.PNG", "work.txt"}
ProbeSizes == {0, MB}

\* _rule_matches_file(rule, _analyze_file(filepath)) for a file that exists
rule_matches_file_call(conditions, filepath, st_size) ==
  /\ probe = NoProbe
  /\ probe' = [fn |-> "rule_matches_file", conditions |-> conditions,
               info |-> analyze_file(filepath, st_size),
               matched |-> rule_matches_file([conditions |-> conditions],
                                             analyze_file(filepath, st_size))]
  /\ UNCHANGED notProbeVars

MatchNext ==
  \E c \in ConditionSets, f \in ProbeFiles, z \in ProbeSizes :
     rule_matches_file_call(c, f, z)

\* ------------------------------------------------------------------------
\* PlacementEngine._find_available_position called on its own
\* ------------------------------------------------------------------------
\* dataclass IconInfo: the defaults of width and height
icon_width == 32
icon_height == 32
IconInfo(x, y) == [x |-> x, y |-> y, width |-> icon_width, height |-> icon_height]

\* the regions of the calls: too small for a cell (30), exactly one cell wide
\* (42), one cell with room to spare (45), two cells (90)
ScanRegions ==
  { [id |-> "region", x |-> x, y |-> y, width |-> w, height |-> h,
     grid_size |-> 32, margin |-> 5] :
       x \in {0, 40}, y \in {0, 40}, w \in {30, 42, 45, 90}, h \in {30, 42, 90} }
\* the icons the icon manager may report: on cells of the grids and off them
ScanIconPositions ==
  { <<5, 5>>, <<42, 5>>, <<5, 42>>, <<42, 42>>, <<45, 45>>, <<10, 10>> }
ScanIconSets == { {IconInfo(c[1], c[2]) : c \in cs} : cs \in SUBSET ScanIconPositions }

\* _find_available_position(region) with the icon manager reporting icons
find_available_position_call(region, icons) ==
  /\ probe = NoProbe
  /\ probe' = [fn |-> "find_available_position", region |-> region, icons |-> icons,
               occupied |-> update_occupied_positions(icons),
               position |-> find_available_position(region,
                                update_occupied_positions(icons))]
  /\ UNCHANGED notProbeVars

ScanNext ==
  \E region \in ScanRegions, icons \in ScanIconSets :
     find_available_position_call(region, icons)

\* ------------------------------------------------------------------------
\* Specifications
\* ------------------------------------------------------------------------
Init ==
  /\ DebInit /\ pending_operations = <<>> /\ RuleInit /\ PlaceInit /\ WorkInit
  /\ ProbeInit /\ BulkInit
  /\ regions = get_desktop_regions(screen[1], screen[2])
\* the engine after ExecutionEngine() on the 1920 x 1080 screen: the catalog
\* is what get_desktop_regions gives at every call (line 346)
ScenarioInit ==
  /\ Init
  /\ screen = <<1920, 1080>>
  /\ auto_organize = TRUE
\* one desktop for the specifications that place no icon
QuietInit ==
  /\ Init
  /\ screen = <<1920, 1080>> /\ listview = TRUE /\ icon_count = 0
  /\ auto_organize = TRUE
\* every desktop of the model, the placement engine called directly
DirectInit == Init /\ auto_organize = TRUE
\* the rule engine after load_rules(ruleset) has returned (lines 146-153)
LoadedRuleset == <<"pdf", "any">>
LoadedWith(ruleset, present) ==
  /\ files = [p \in DesktopFiles |-> IF p \in present THEN 0 ELSE Absent]
  /\ current_rules = 1
  /\ rule_lists = [i \in LoadIds |->
        IF i = 1 THEN [orig |-> ruleset, cur |-> SortedRules(ruleset),
                       sorting |-> FALSE]
        ELSE [orig |-> <<>>, cur |-> <<>>, sorting |-> FALSE]]
  /\ rule_cache = [p \in Paths |-> NoRule]
  /\ loader = [pc |-> "idle", id |-> 1]
  /\ matchers = [m \in Threads |-> IdleMatcher]
  /\ last_two = [p \in Paths |-> [prev |-> Unknown, cur |-> Unknown]]
  /\ budget = [loads |-> 1, finds |-> 0, changes |-> 0]
LoadedInit == LoadedWith(LoadedRuleset, DesktopFiles)
\* a desktop of any kind that holds a.pdf and B.PNG, one of the rule sets of
\* the worker loaded
BulkStart ==
  /\ DebInit /\ pending_operations = <<>> /\ PlaceInit /\ WorkInit
  /\ \E ruleset \in WorkerRuleSets : LoadedWith(ruleset, Paths)
  /\ ProbeInit /\ BulkInit
  /\ regions = get_desktop_regions(screen[1], screen[2])
  /\ auto_organize = TRUE
\* the one-cell desktop whose bottom right cell is taken by an icon, the
\* rules loaded
LifeInit ==
  /\ DebInit /\ pending_operations = <<>> /\ LoadedInit /\ PlaceInit /\ WorkInit
  /\ ProbeInit /\ BulkInit
  /\ regions = get_desktop_regions(screen[1], screen[2])
  /\ screen = <<90, 90>> /\ listview = TRUE /\ icon_count = 1
  /\ auto_organize = TRUE

\* the observer thread and the delayed_process threads
SpecDebounce == QuietInit /\ [][DebNext]_vars

\* load_rules against concurrent find_matching_rule calls
SpecRules == QuietInit /\ [][RuleNext]_vars

\* load_rules calls against the find_matching_rule calls of one thread
SpecOneMatcher == QuietInit /\ [][OneMatcherNext]_vars

\* concurrent place_icon_in_region calls on every desktop of the model
SpecPlace == DirectInit /\ [][PlaceNext]_vars

\* the processing thread works on the queue while rule sets are loaded
SpecWorker == Init /\ [][WorkNext]_vars

\* the processing thread on the one-cell desktop, where a.pdf is placed and
\* the placement of B.PNG fails every time
SpecQueue == LifeInit /\ [][QueueNext]_vars /\ QueueFairness

\* the processing thread while the cell of a region is taken and given free
SpecRetry == LifeInit /\ [][RetryNext]_vars /\ QueueFairness

\* the processing thread while operations fail: no free cell in the region,
\* the file deleted before the match or before the write
SpecIsolate == LifeInit /\ [][IsolateNext]_vars /\ QueueFairness

\* a started thread is scheduled again and again and its sleeps end; a
\* call of stop_monitoring runs to its end
LifeFairness ==
  /\ \A w \in Workers : WF_vars(WorkerStep(w))
  /\ WF_vars(stop_monitoring_observer)
  /\ WF_vars(stop_monitoring_join)
  /\ WF_vars(start_monitoring_clear)
  /\ WF_vars(start_monitoring_thread)
  /\ WF_vars(start_monitoring_return)

\* the same, with stop_monitoring and further starts
SpecLife == LifeInit /\ [][LifeNext]_vars /\ LifeFairness

\* the one-cell desktop with the files of the model's paths on it
FrameInit ==
  /\ DebInit /\ pending_operations = <<>> /\ LoadedWith(LoadedRuleset, Paths)
  /\ PlaceInit /\ WorkInit /\ ProbeInit /\ BulkInit
  /\ regions = get_desktop_regions(screen[1], screen[2])
  /\ screen = <<90, 90>> /\ listview = TRUE /\ icon_count = 1
  /\ auto_organize = TRUE

\* organize_all_desktop_icons beside the processing thread
SpecFrame == FrameInit /\ [][FrameNext]_vars

\* the queue kept over stop_monitoring and worked off after the next start
SpecStop == LifeInit /\ [][StopNext]_vars /\ LifeFairness

\* place_icon_in_region beside the icon manager's own arranging functions
ArrangeInit == DirectInit /\ listview = TRUE /\ icon_count = 1
SpecArrange == ArrangeInit /\ [][ArrangeNext]_vars

\* rules of every shape tested against files
SpecMatch == QuietInit /\ [][MatchNext]_vars

\* generated rule sets of every kind validated and loaded
SpecValidate == QuietInit /\ [][ValidateNext]_vars

\* get_statistics called while the engine is started, works and is stopped
SpecStats == LifeInit /\ [][StatsNext]_vars

\* placement searches on a desktop whose icons come and go
SpecRefresh == DirectInit /\ [][RefreshNext]_vars

\* organize_all_desktop_icons called by one thread
SpecBulk == BulkStart /\ [][BulkNext]_vars

\* place_icon_in_region called for files that exist and files that do not
SpecStore == DirectInit /\ [][StoreNext]_vars

\* _find_available_position called with regions and icons of every kind
SpecScan == QuietInit /\ [][ScanNext]_vars

\* successive placements into the scenario's region
SpecScenario == ScenarioInit /\ [][ScenarioNext]_vars

\* ------------------------------------------------------------------------
\* Properties of the debouncer
\* ------------------------------------------------------------------------
\* notifications delivered for path p, by arrival number
Notified(p) == {i \in TimerIds : timers[i].pc # "unborn" /\ timers[i].path = p}
LastNotified(p) == CHOOSE i \in Notified(p) : \A j \in Notified(p) : j <= i

\* no thread is at work on p any more
Settled(p) ==
  /\ observer.path # p
  /\ \A i \in Notified(p) : timers[i].pc \in {"done", "raised"}

\* every notification of p came within the debounce delay of the one before
RapidBurst(p) ==
  \A i, j \in Notified(p) :
     (i < j /\ \A k \in Notified(p) : ~(i < k /\ k < j))
        => timers[j].time - timers[i].time < DebounceTicks

OpsFor(p) == {k \in 1..Len(pending_operations) : pending_operations[k].filepath = p}

\* C1: a burst of rapid notifications for one path puts exactly one operation
\* for that path on the queue, and it carries the kind of the last notification
C1_BurstGivesOneLatestOperation ==
  \A p \in Paths :
     (Notified(p) # {} /\ RapidBurst(p) /\ Settled(p))
        => /\ Cardinality(OpsFor(p)) = 1
           /\ \A k \in OpsFor(p) :
                 pending_operations[k].operation_type = timers[LastNotified(p)].type

\* C2: once the threads of a path have finished, its latest notification (the
\* one nothing superseded) has been forwarded to the operation queue
C2_LatestNotificationForwarded ==
  \A p \in Paths :
     (Notified(p) # {} /\ Settled(p))
        => \E k \in OpsFor(p) : pending_operations[k].id = LastNotified(p)

\* ------------------------------------------------------------------------
\* Properties of the rule engine
\* ------------------------------------------------------------------------
\* the rule set object of load k as its producer wrote it (k = 0: none loaded)
OrigOf(k) == IF k = 0 THEN <<>> ELSE rule_lists[k].orig

\* the enabled rules of a rule set that the file satisfies, and the one the
\* contract names: highest priority, the earliest of the rule set on a tie
Candidates(ids, info) ==
  {i \in 1..Len(ids) : Rule(ids[i]).enabled /\ rule_matches_file(Rule(ids[i]), info)}
Best(ids, info) ==
  LET c == Candidates(ids, info)
  IN IF c = {} THEN None
     ELSE ids[CHOOSE i \in c : \A j \in c :
                \/ Rule(ids[j]).priority < Rule(ids[i]).priority
                \/ Rule(ids[j]).priority = Rule(ids[i]).priority /\ i <= j]
\* what a match of path p against the complete rule set of load k returns
Ref(k, p) == Best(OrigOf(k), analyze_file(p, files[p]))

Returned(m) == matchers[m].pc = "returned"

\* C7: two calls on one path, the second begun after the first returned,
\* with no step of load_rules and no change of the file from the start of the
\* first to the end of the second, return the same rule (or both none)
C7_MatchDeterministic ==
  \A p \in Paths :
     (last_two[p].prev # Unknown /\ last_two[p].cur # Unknown)
        => last_two[p].prev = last_two[p].cur
\* C8: a match that a load overlaps returns what it would return against the
\* complete rule set of one of the loads it saw (the one completed when it
\* started, or one started before it returned); no file changed meanwhile
C8_LoadAtomicForMatch ==
  \A m \in Matchers :
     (Returned(m) /\ matchers[m].overlap /\ budget.changes = 0)
        => \E k \in matchers[m].start_done..matchers[m].end_started :
              matchers[m].result = Ref(k, matchers[m].path)

\* C9: a match that starts after load_rules(R) returned, with no load since,
\* returns none or the rule of R a fresh scan of R returns; no file changed
C9_NoStaleRuleAfterLoad ==
  \A m \in Matchers :
     (/\ Returned(m) /\ ~matchers[m].overlap /\ matchers[m].start_done >= 1
      /\ budget.changes = 0)
        => \/ matchers[m].result = None
           \/ /\ matchers[m].result \in Elems(OrigOf(matchers[m].start_done))
              /\ matchers[m].result = Ref(matchers[m].start_done, matchers[m].path)

\* C10: a match that misses the cache, with no load step during it, returns
\* the enabled rule of highest priority the file satisfies, the earliest of the
\* rule set as loaded on a tie; never a disabled rule; none if there is no such
C10_HighestPriorityFirstLoaded ==
  \A m \in Matchers :
     (Returned(m) /\ matchers[m].scanned /\ ~matchers[m].overlap)
        => /\ matchers[m].result = Best(OrigOf(matchers[m].start_done), matchers[m].info)
           /\ matchers[m].result # None => Rule(matchers[m].result).enabled
\* a rule set loaded in ascending priority order: the later, higher rule wins
C10_Witness ==
  \E m \in Matchers :
     /\ Returned(m) /\ matchers[m].scanned /\ ~matchers[m].overlap
     /\ OrigOf(matchers[m].start_done) = <<"docs", "pdf">>
     /\ matchers[m].result = "pdf"

\* ------------------------------------------------------------------------
\* Properties of the placement engine
\* ------------------------------------------------------------------------
\* the icon of the i-th successful placement has not been placed again
\* among the first j placements
StillThere(i, j) ==
  \A k \in (i + 1)..j : committed[k].filename # committed[i].filename

\* what the icon manager reports of the desktop
Reported == update_occupied_positions(get_all_icon_positions(listview, icon_count))

\* C4: after any sequence of successful place_icon_in_region calls no two
\* icons are committed to the same coordinate: a successful placement writes
\* a coordinate that no icon placed earlier and still there holds, and none
\* the icon manager reports
C4_NoTwoIconsOnOneCell ==
  \A j \in 1..Len(committed) :
    committed[j].by = "place_icon_in_region" =>
      /\ committed[j].position \notin Reported
      /\ \A i \in 1..(j - 1) :
           StillThere(i, j) => committed[i].position # committed[j].position

\* two calls for different files and the same region of the catalog have
\* overlapped and returned, the region had one free cell and no other call
\* has been made
OneCellRace(t, u) ==
  /\ t # u
  /\ n_placed = 2
  /\ placers[t].pc = "returned" /\ placers[u].pc = "returned"
  /\ placers[t].raced /\ placers[u].raced
  /\ placers[t].filename # placers[u].filename
  /\ placers[t].region_id = placers[u].region_id
  /\ target_region(regions, placers[t].region_id) # NoRegion
  /\ Cardinality(FreeCells(target_region(regions, placers[t].region_id), Reported)) = 1

\* C5: of two concurrent placements of different files into a region with
\* one free cell exactly one succeeds, the other finds no free cell, the
\* two never choose the same cell, and at any time at most one call is
\* between its scan and its commit
C5_OneCellOneWinner ==
  /\ \A t, u \in Placers :
       ( placers[t].pc \in {"scan", "commit", "sleep"}
         /\ placers[u].pc \in {"scan", "commit", "sleep"} )
         => t = u
  /\ \A t, u \in Placers :
       OneCellRace(t, u) =>
         /\ placers[t].result # placers[u].result
         /\ placers[t].result => placers[u].n_free = 0
         /\ placers[t].position = NoPosition \/ placers[t].position # placers[u].position

\* the k-th cell of the first row of a region
FirstRowCell(region, k) ==
  <<region.x + region.margin + (k - 1) * (region.grid_size + region.margin),
    region.y + region.margin>>

\* C6: three successive placements of three new files into the empty region
\* at (0,0) are committed on the first three cells of its first row, in
\* arrival order: at (8,8), (48,8) and (88,8) for cells of 32 and margin 8,
\* at (5,5), (42,5) and (79,5) for the margin 5 of the regions the icon
\* manager hands out
C6_FirstRowInArrivalOrder ==
  ( /\ Len(committed) = 3
    /\ Cardinality({committed[i].filename : i \in 1..3}) = 3
    /\ \A i \in 1..3 : committed[i].region_id = "top_left" )
  => \A k \in 1..3 :
       committed[k].position = FirstRowCell(target_region(regions, "top_left"), k)

\* ------------------------------------------------------------------------
\* Properties of the processing thread
\* ------------------------------------------------------------------------
\* the operation is in the queue or in the hands of the processing thread
InQueue(id) == \E k \in 1..Len(pending_operations) : pending_operations[k].id = id
InHand(id) == \E w \in Workers : Executing(w) /\ worker[w].op.id = id

\* C3: an operation whose placement fails every time is attempted at most
\* max_retries + 1 times, and after its last failed attempt it is neither
\* appended to the queue again nor found in it
C3_RetryBound ==
  \A id \in OpIds :
    /\ op_log.attempts[id] <= max_retries + 1
    /\ op_log.outcome[id] = "abandoned" =>
         /\ op_log.attempts[id] = max_retries + 1
         /\ ~InQueue(id) /\ ~InHand(id)
C3_Witness ==
  \E id \in OpIds :
    /\ op_log.outcome[id] = "abandoned"
    /\ op_log.attempts[id] = 4
    /\ stats.failed_moves >= 4
    /\ ~Executing("worker")

\* ------------------------------------------------------------------------
\* Properties of rule matching
\* ------------------------------------------------------------------------
\* the accepted values of a condition key
Accepted(c) == IF c.is_str THEN {c.str} ELSE {c.list[i] : i \in 1..Len(c.list)}
\* a single accepted value rewritten as a one-element list
AsOneElementList(c) == IF c.is_str THEN ListCond(<<c.str>>) ELSE c
Listified(conds) == [k \in DOMAIN conds |-> AsOneElementList(conds[k])]

\* every key present holds a value the attribute of the file equals
EveryKeyEqual(conds, info) ==
  /\ conds.file_type.present => info.file_type \in Accepted(conds.file_type)
  /\ conds.extensions.present => info.extension \in Accepted(conds.extensions)
  /\ conds.size_range.present => info.size_range \in Accepted(conds.size_range)
  /\ conds.keywords.present => Accepted(conds.keywords) \cap info.keywords # {}
  /\ conds.name_patterns.present => info.filename \in Accepted(conds.name_patterns)

\* as EveryKeyEqual, but a keyword may also occur in the file name and a name
\* pattern has to occur in it, both compared in lower case
EveryKeySatisfied(conds, info) ==
  /\ conds.file_type.present => info.file_type \in Accepted(conds.file_type)
  /\ conds.extensions.present => info.extension \in Accepted(conds.extensions)
  /\ conds.size_range.present => info.size_range \in Accepted(conds.size_range)
  /\ conds.keywords.present =>
       \E k \in Accepted(conds.keywords) :
          k \in info.keywords \/ Contains(Lower(k), Lower(info.filename))
  /\ conds.name_patterns.present =>
       \E k \in Accepted(conds.name_patterns) : Contains(Lower(k), Lower(info.filename))

Probed(fn) == probe.fn = fn

\* C11 as stated: a rule matches a file exactly when for every condition
\* key present the attribute of the file equals one of the accepted values
C11_MatchIffEveryKeyEqual ==
  Probed("rule_matches_file") =>
    probe.matched = EveryKeyEqual(probe.conditions, probe.info)

\* C11 amended: a rule matches a file exactly when every condition key
\* present is satisfied, a keyword also by occurring in the file name and a
\* name pattern by occurring in it; a single value acts as a one-element
\* list; a rule with no key present matches every file
C11_MatchIffEveryKeySatisfied ==
  Probed("rule_matches_file") =>
    /\ probe.matched = EveryKeySatisfied(probe.conditions, probe.info)
    /\ probe.matched = rule_matches_file([conditions |-> Listified(probe.conditions)],
                                         probe.info)
    /\ probe.conditions = NoConditions => probe.matched
C11_Witness ==
  /\ Probed("rule_matches_file")
  /\ probe.matched
  /\ probe.conditions.file_type = StrCond("document")
  /\ probe.conditions.keywords = StrCond("pdf")
  /\ probe.conditions.name_patterns = ListCond(<<"a">>)
  /\ probe.info.filename = "a.pdf"

\* C12: find_matching_rule returns None for a path whose file is gone,
\* whatever the cache holds for the path (calls that no load step overlaps)
C12_NoRuleForMissingFile ==
  \A m \in Matchers :
    ( /\ matchers[m].pc = "returned"
      /\ matchers[m].gone /\ ~matchers[m].touched /\ ~matchers[m].overlap )
    => matchers[m].result = None

\* ------------------------------------------------------------------------
\* the processing thread: dropped operations, back-off, queue order
\* ------------------------------------------------------------------------
\* thread w is about to run _execute_operation on the operation it took
AtExecute(w) == worker[w].pc = "execute"
\* the step that runs lines 561-570 for thread w
BeginsExecution(w) == AtExecute(w) /\ worker'[w].pc # "execute"
\* nothing of the rule engine and of the placement engine is called or read
NoMatchNoPlacement ==
  /\ matchers' = matchers /\ rule_cache' = rule_cache /\ budget' = budget
  /\ placers' = placers /\ occupied_positions' = occupied_positions
  /\ committed' = committed /\ n_placed' = n_placed /\ placement_lock' = placement_lock
OnlyProcessedCounted ==
  stats' = [stats EXCEPT !.processed_files = @ + 1]
DropsMissingFile ==
  \A w \in Workers :
    (BeginsExecution(w) /\ files[worker[w].op.filepath] = Absent)
      => /\ OnlyProcessedCounted
         /\ NoMatchNoPlacement
         /\ pending_operations' = pending_operations
         /\ worker'[w].pc = "loop"
         /\ op_log'.outcome[worker[w].op.id] \in {"missing", "disabled"}
MissingIsFinal ==
  \A i \in OpIds : op_log.outcome[i] = "missing" => ~InQueue(i) /\ ~InHand(i)

\* C13: an operation whose file is gone when the worker executes it is
\* dropped: only processed_files is counted, no rule is looked up, no
\* placement is tried, and the operation is not put back into the queue.
C13_MissingFileIsDropped == [][DropsMissingFile]_vars /\ []MissingIsFinal
C13_Witness ==
  \E i \in OpIds :
    /\ op_log.outcome[i] = "missing"
    /\ stats.processed_files >= 1
    /\ \E w \in Workers : worker[w].op.id = i /\ worker[w].pc = "loop"

\* the step in which thread w takes the answer of find_matching_rule
TakesAnswer(w) ==
  /\ worker[w].pc = "match" /\ matchers[w].pc = "returned"
  /\ worker'[w] # worker[w]
DropsUnmatched ==
  \A w \in Workers :
    (TakesAnswer(w) /\ matchers[w].result = None)
      => /\ stats' = stats
         /\ placers' = placers /\ occupied_positions' = occupied_positions
         /\ committed' = committed /\ n_placed' = n_placed
         /\ placement_lock' = placement_lock
         /\ pending_operations' = pending_operations
         /\ worker'[w].pc = "loop"
         /\ op_log'.outcome[worker[w].op.id] = "unmatched"
         /\ op_log'.attempts = op_log.attempts
UnmatchedIsFinal ==
  \A i \in OpIds : op_log.outcome[i] = "unmatched" => ~InQueue(i) /\ ~InHand(i)

\* C14: an operation for which find_matching_rule returns no rule ends
\* there: no placement is tried (the placement engine and the icon
\* positions are left alone), the operation is not put back into the queue,
\* and successful_moves and failed_moves keep their values.
C14_UnmatchedIsDropped == [][DropsUnmatched]_vars /\ []UnmatchedIsFinal
C14_Witness ==
  \E i \in OpIds, w \in Workers :
    /\ op_log.outcome[i] = "unmatched"
    /\ worker[w].op.id = i /\ worker[w].pc = "loop"
    /\ files[worker[w].op.filepath] # Absent
    /\ current_rules # 0 /\ loader.pc = "idle"
    /\ rule_lists[current_rules].cur # <<>>
    /\ op_log.attempts[i] = 0 /\ n_placed = 0

\* the step in which thread w takes the answer of place_icon_in_region
TakesPlacement(w) ==
  /\ worker[w].pc = "place" /\ placers[w].pc = "returned"
  /\ worker'[w] # worker[w]
\* a failed placement with retries left: the failure is counted and the
\* operation, its counter incremented, waits Delay(counter compared) seconds
RetryPrepared(w, Delay(_)) ==
  LET operation == worker[w].op
  IN (TakesPlacement(w) /\ ~placers[w].result /\ operation.retries < operation.max_retries)
       => /\ stats' = [stats EXCEPT !.failed_moves = @ + 1]
          /\ worker'[w].pc = "backoff"
          /\ worker'[w].op.id = operation.id
          /\ worker'[w].op.filepath = operation.filepath
          /\ worker'[w].op.retries = operation.retries + 1
          /\ worker'[w].delay = Delay(operation.retries)
          /\ pending_operations' = pending_operations
\* the end of the sleep: the operation is appended to the queue
RetryEnqueued(w) ==
  (worker[w].pc = "backoff" /\ worker'[w].pc # "backoff")
    => pending_operations' = Append(pending_operations, worker[w].op)
TwoToThe(n) == 2 ^ n
TwoToTheNext(n) == 2 ^ (n + 1)

\* C15: a failed placement with retries < max_retries counts one failure and
\* puts the same operation back into the queue with retries + 1, after a
\* delay of 2^retries seconds, retries being the value compared with
\* max_retries (delays 1, 2, 4).
C15_BackoffFromComparedCounter ==
  [][\A w \in Workers : RetryPrepared(w, TwoToThe) /\ RetryEnqueued(w)]_vars
\* C15 as amended: the delay is 2^(retries + 1) seconds (delays 2, 4, 8).
C15_BackoffFromIncrementedCounter ==
  [][\A w \in Workers : RetryPrepared(w, TwoToTheNext) /\ RetryEnqueued(w)]_vars
C15_Witness ==
  \E w \in Workers :
    /\ worker[w].pc = "backoff"
    /\ worker[w].op.retries = max_retries /\ worker[w].delay = 8
    /\ stats.failed_moves = max_retries

\* ------------------------------------------------------------------------
\* the order of the queue
\* ------------------------------------------------------------------------
IdsOf(queue) == [k \in 1..Len(queue) |-> queue[k].id]
\* the operations taken are the first ones put in, in the same order, and
\* the queue holds the rest
TakenInOrder ==
  /\ Len(op_log.dequeued) <= Len(op_log.enqueued)
  /\ op_log.dequeued = SubSeq(op_log.enqueued, 1, Len(op_log.dequeued))
  /\ IdsOf(pending_operations) =
       SubSeq(op_log.enqueued, Len(op_log.dequeued) + 1, Len(op_log.enqueued))
\* a retried operation goes behind everything the queue holds
RetryGoesLast ==
  \A w \in Workers :
    (worker[w].pc = "backoff" /\ worker'[w].pc # "backoff")
      => /\ Len(pending_operations') = Len(pending_operations) + 1
         /\ SubSeq(pending_operations', 1, Len(pending_operations)) = pending_operations
         /\ pending_operations'[Len(pending_operations')].id = worker[w].op.id
\* every entry of the queue is taken at some time
EnqueueCounts == 1..(MaxQueued * (max_retries + 1))
EveryEntryTaken ==
  \A k \in EnqueueCounts :
    (Len(op_log.enqueued) >= k) ~> (Len(op_log.dequeued) >= k)

\* C16: the queue is FIFO: operations are taken in the order they were put
\* in, a retried operation goes to the tail behind everything already
\* waiting, and an operation that keeps failing does not keep a later one
\* from being executed.
C16_QueueIsFifo == []TakenInOrder /\ [][RetryGoesLast]_vars /\ EveryEntryTaken
\* a later operation was placed while the earlier one kept failing and was
\* given up after it
C16_Witness ==
  /\ Len(op_log.enqueued) >= 3
  /\ op_log.enqueued[1] = 1 /\ op_log.enqueued[2] = 2 /\ op_log.enqueued[3] = 1
  /\ op_log.outcome[2] = "placed"
  /\ op_log.outcome[1] = "abandoned"

\* ------------------------------------------------------------------------
\* start_monitoring and stop_monitoring
\* ------------------------------------------------------------------------
\* thread w is past the test of the stop event: it takes an operation from
\* the queue or executes one
Working(w) == worker[w].pc \in {"poll", "execute", "match", "place"}

\* C17: whatever start_monitoring and stop_monitoring calls were made, a
\* stop whose join timed out and a start after it included, at most one
\* thread takes operations from the queue and executes them at any time.
C17_AtMostOneWorker == Cardinality({w \in Workers : Working(w)}) <= 1

\* the step in which a call of start_monitoring returns from its test of the
\* observer (line 469) or fails
StartReturns == monitoring.ctl = "start" /\ monitoring'.ctl = "idle"
StartWhileRunning ==
  (StartReturns /\ monitoring.observer = "alive")
    => /\ monitoring'.result = "True"
       /\ monitoring'.observer = monitoring.observer
       /\ monitoring'.processing_thread = monitoring.processing_thread
       /\ monitoring'.stop_event = monitoring.stop_event
       /\ worker' = worker
       /\ pending_operations' = pending_operations
       /\ stats' = stats

\* C18: start_monitoring called while the observer is alive returns True
\* and creates no observer, starts no thread and leaves the stop event, the
\* queue and the counters as they are.
C18_StartWhileRunningIsNoOp == [][StartWhileRunning]_vars
C18_Witness ==
  /\ monitoring.log = "already running" /\ monitoring.result = "True"
  /\ monitoring.ctl = "idle"
  /\ Alive("worker") /\ ~Alive("worker2")
  /\ pending_operations # <<>>

\* the engine is stopped: never started, or the last call that returned was
\* a stop_monitoring or a start_monitoring that failed
Stopped ==
  /\ monitoring.ctl = "idle"
  /\ monitoring.log \in {"none", "stopped", "start failed"}
\* get_statistics, line 671: monitoring_active
monitoring_active == monitoring.observer = "alive"
NothingActive == ~monitoring_active /\ \A w \in Workers : ~Alive(w)
\* once stop_monitoring has set the stop event, the threads end and the
\* observer is reported inactive, unless a start clears the event
StopTakesEffect ==
  monitoring.stop_event ~> (~monitoring.stop_event \/ NothingActive)

\* C19: the engine goes Stopped, Starting, Running, Stopping, Stopped:
\* after stop_monitoring, with no start after it, the processing thread
\* leaves its loop and get_statistics reports monitoring as inactive; the
\* observer and the processing thread are active only between a start that
\* succeeded and the stop after it.
C19_Lifecycle == [](Stopped => NothingActive) /\ StopTakesEffect

\* a thread inside _execute_operation leaves it at its end only: it goes
\* back to the head of the loop, the operation at its outcome or in the
\* queue again
RunsToOutcome ==
  \A w \in Workers :
    Executing(w) =>
      \/ worker'[w].pc \in {"execute", "match", "place", "backoff"}
         /\ worker'[w].op.id = worker[w].op.id
      \/ /\ worker'[w].pc = "loop"
         /\ \/ op_log'.outcome[worker[w].op.id] # "none"
            \/ \E k \in 1..Len(pending_operations') :
                 pending_operations'[k].id = worker[w].op.id
AllExited == \A w \in Workers : ~Alive(w)
\* the operations in hand when the stop event was set are at their outcome,
\* or in the queue again, when the threads have ended
InFlightFinished ==
  (monitoring.stop_event /\ AllExited)
    => \A i \in op_log.at_stop : op_log.outcome[i] # "none" \/ InQueue(i)

\* C20: stop_monitoring does not interrupt an operation in flight: an
\* operation taken from the queue when the stop event is set is matched and
\* placed, its counters are updated and, after a failure with retries left,
\* it is put back into the queue, before the thread ends.
C20_StopLetsOperationFinish == [][RunsToOutcome]_vars /\ []InFlightFinished
C20_Witness ==
  /\ monitoring.stop_event /\ AllExited
  /\ \E i \in op_log.at_stop :
       /\ InQueue(i)
       /\ \E k \in 1..Len(pending_operations) :
            pending_operations[k].id = i /\ pending_operations[k].retries >= 1
  /\ stats.failed_moves >= 1

\* ------------------------------------------------------------------------
\* the placement search
\* ------------------------------------------------------------------------
\* the grid of the claim: the cells (x + margin + i * (cell + margin),
\* y + margin + j * (cell + margin)) that end cell + margin before the far
\* edges of the region
ClaimedGrid(region) ==
  LET cell == region.grid_size
      margin == region.margin
  IN { <<region.x + margin + i * (cell + margin), region.y + margin + j * (cell + margin)>> :
         i \in { k \in 0..region.width :
                   region.x + margin + k * (cell + margin)
                     <= region.x + region.width - cell - margin },
         j \in { k \in 0..region.height :
                   region.y + margin + k * (cell + margin)
                     <= region.y + region.height - cell - margin } }
\* c comes before d, rows from the top, left to right within a row
RowMajorBefore(c, d) == c[2] < d[2] \/ (c[2] = d[2] /\ c[1] <= d[1])
InsideWithMargin(c, region) ==
  /\ region.x + region.margin <= c[1]
  /\ c[1] + region.grid_size + region.margin <= region.x + region.width
  /\ region.y + region.margin <= c[2]
  /\ c[2] + region.grid_size + region.margin <= region.y + region.height
FirstFreeOfClaimedGrid ==
  LET free == ClaimedGrid(probe.region) \ probe.occupied
  IN /\ (probe.position = NoPosition) = (free = {})
     /\ probe.position # NoPosition =>
          /\ probe.position \in free
          /\ \A d \in free : RowMajorBefore(probe.position, d)
          /\ InsideWithMargin(probe.position, probe.region)

\* C30: the placement search returns the first unoccupied cell, rows from
\* the top and left to right within a row, of the grid that starts one
\* margin inside the region and advances by cell + margin; the cell lies
\* inside the region with the margin on every side; nothing is returned
\* exactly when every cell is occupied or the region holds no cell.
C30_FirstFreeCellRowMajor ==
  Probed("find_available_position") => FirstFreeOfClaimedGrid
\* the first cell of the first row is taken and the second one returned
C30_Witness ==
  /\ Probed("find_available_position")
  /\ probe.region.x = 0 /\ probe.region.y = 0 /\ probe.region.width = 90
  /\ <<5, 5>> \in probe.occupied /\ <<5, 42>> \notin probe.occupied
  /\ probe.position = <<42, 5>>

\* two rectangles, each given by its corner and its sides, share a point of
\* their interiors
Overlap(ax, ay, aw, ah, bx, by, bw, bh) ==
  /\ ax < bx + bw /\ bx < ax + aw
  /\ ay < by + bh /\ by < ay + ah
CellClearOfIcons ==
  \A icon \in probe.icons :
    ~Overlap(probe.position[1], probe.position[2],
             probe.region.grid_size, probe.region.grid_size,
             icon.x, icon.y, icon.width, icon.height)

\* C27: the square of the cell chosen for a new icon overlaps the rectangle
\* of no icon the icon manager reported for this placement, wherever the
\* reported icons are, on the grid of the region or off it.
C27_CellOverlapsNoReportedIcon ==
  (Probed("find_available_position") /\ probe.position # NoPosition)
    => CellClearOfIcons

\* ------------------------------------------------------------------------
\* place_icon_in_region: its result and what it does to the store
\* ------------------------------------------------------------------------
KnownRegionIds == {regions[i].id : i \in 1..Len(regions)}
\* the step of thread t that resolves the region and scans
ScanStep(t) == placers[t].pc = "scan" /\ placers'[t].pc # "scan"
\* the step of thread t that asks the store for the write
CommitStep(t) == placers[t].pc = "commit" /\ placers'[t].pc # "commit"
\* the step of thread t at which the store's call returns True
AcceptedStep(t) == placers[t].pc = "sleep" /\ placers'[t].pc # "sleep"
UnknownRegionStep ==
  \A t \in Threads :
    (ScanStep(t) /\ placers[t].region_id \notin KnownRegionIds)
      => /\ placers'[t].pc = "returned" /\ ~placers'[t].result
         /\ placers'[t].store_reads = 0 /\ placers'[t].store_writes = 0
         /\ occupied_positions' = occupied_positions
         /\ committed' = committed
UnknownRegionReturned ==
  \A t \in Threads :
    (placers[t].pc = "returned" /\ placers[t].region_id \notin KnownRegionIds)
      => ~placers[t].result /\ placers[t].store_reads = 0 /\ placers[t].store_writes = 0

\* C28: place_icon_in_region with a region id the catalog lacks returns
\* False, neither reads the icon positions nor writes one, and leaves the
\* occupied set as it is.
C28_UnknownRegionFails == [][UnknownRegionStep]_vars /\ []UnknownRegionReturned
C28_Witness ==
  /\ placers["caller"].pc = "returned" /\ placers["caller"].region_id = "center"
  /\ ~placers["caller"].result
  /\ occupied_positions # {}

\* what the icon manager answers to the write of thread t
StoreAnswer(t) ==
  /\ validate_coordinates(placers[t].position[1], placers[t].position[2],
                          screen[1], screen[2])
  /\ files[placers[t].filename] # Absent
WriteDecides ==
  \A t \in Threads :
    /\ CommitStep(t) =>
         /\ placers'[t].store_writes = 1
         /\ occupied_positions' = occupied_positions
         /\ IF StoreAnswer(t) THEN placers'[t].pc = "sleep"
            ELSE placers'[t].pc = "returned" /\ ~placers'[t].result
    /\ AcceptedStep(t) =>
         /\ placers'[t].pc = "returned" /\ placers'[t].result
         /\ placers'[t].store_writes = 1
         /\ placers[t].position \in occupied_positions'
NoCellNoWrite ==
  \A t \in Threads :
    (ScanStep(t) /\ placers'[t].pc = "returned")
      => /\ ~placers'[t].result
         /\ placers'[t].position = NoPosition
         /\ placers'[t].store_writes = 0
         /\ committed' = committed
SuccessMeansCellAndWrite ==
  \A t \in Threads :
    placers[t].pc = "returned" =>
      /\ placers[t].result => placers[t].position # NoPosition /\ placers[t].store_writes = 1
      /\ placers[t].position = NoPosition => ~placers[t].result /\ placers[t].store_writes = 0

\* C29: place_icon_in_region returns True exactly when a free cell was found
\* and the icon manager accepted the write for it; without a free cell no
\* write is issued, and after a refused write the cell is not added to the
\* occupied set.
C29_SuccessIffCellAndWrite ==
  [][WriteDecides /\ NoCellNoWrite]_vars /\ []SuccessMeansCellAndWrite
\* a write was refused: the file had been deleted
C29_Witness ==
  /\ placers["caller"].pc = "returned" /\ ~placers["caller"].result
  /\ placers["caller"].position # NoPosition
  /\ placers["caller"].store_writes = 1
  /\ placers["caller"].position \notin occupied_positions


\* the sum of the counts of a result's rules_applied
RECURSIVE SumApplied(_, _)
SumApplied(applied, names) ==
  IF names = {} THEN 0
  ELSE LET n == CHOOSE m \in names : TRUE
       IN applied[n] + SumApplied(applied, names \ {n})
OrganizeReturned == organizer.runs > 0 /\ organizer.pc = "returned"

\* the call that returned made one placement call for each file with a rule,
\* none again for a failed one, and its counts add up
CountsAddUp(r) ==
  /\ organizer.handled = organizer.listing
  /\ r.total_files = Len(organizer.listing)
  /\ r.organized_files + r.failed_files + r.skipped_files = r.total_files
  /\ SumApplied(r.rules_applied, RuleNames) = r.organized_files
  /\ n_placed - organizer.placed_before = r.organized_files + r.failed_files

\* C21, as stated: when organize_all_desktop_icons returns it has handled
\* every file of its listing once, in one pass; it made one placement call
\* for each file with a rule and none again for a failed one; the queue is as
\* it was; organized + failed + skipped = total and the counts of
\* rules_applied add up to organized
C21_BulkCountsAddUp ==
  /\ Len(pending_operations) = 0
  /\ OrganizeReturned =>
       LET r == organize_result(organizer)
       IN IF "total_files" \in DOMAIN r THEN CountsAddUp(r) ELSE FALSE

\* C21, amended: the same for every call whose listing of the directory
\* succeeded; a call whose listing failed returns the error alone, has
\* handled no file and has made no placement call, and the queue is as it was
C21_CountsAddUpWhenListed ==
  /\ Len(pending_operations) = 0
  /\ OrganizeReturned =>
       LET r == organize_result(organizer)
       IN IF organizer.error = "none"
          THEN IF "total_files" \in DOMAIN r THEN CountsAddUp(r) ELSE FALSE
          ELSE /\ DOMAIN r = {"error"}
               /\ Len(organizer.handled) = 0
               /\ n_placed = organizer.placed_before
C21_Witness ==
  /\ OrganizeReturned /\ organizer.error = "none"
  /\ organizer.results.total_files = 2
  /\ organizer.results.organized_files = 1
  /\ organizer.results.skipped_files = 1

\* C22: a file whose placement fails is counted in failed_files and the pass
\* goes on: at the return every file of the listing has been handled and
\* failed_files is the number of failures
C22_FailureDoesNotStopThePass ==
  /\ organizer.results.failed_files = Len(organizer.failures)
  /\ OrganizeReturned => Len(organizer.handled) = Len(organizer.listing)
  /\ organizer.pc \in {"find", "place"} =>
       Len(organizer.handled) + Len(organizer.todo)
         = Len(organizer.listing) + (IF organizer.pc = "place" THEN 1 ELSE 0)
C22_Witness ==
  /\ OrganizeReturned
  /\ Len(organizer.listing) = 2
  /\ organizer.failures = <<organizer.listing[1]>>
  /\ organizer.results.organized_files = 1

\* the regions whose rectangle holds a position
RegionsAt(position) ==
  {regions[i].id : i \in {j \in 1..Len(regions) :
      /\ regions[j].x <= position[1] /\ position[1] < regions[j].x + regions[j].width
      /\ regions[j].y <= position[2] /\ position[2] < regions[j].y + regions[j].height}}
InRegionOfItsRule(f, position) ==
  /\ Ref(current_rules, f) # None
  /\ Rule(Ref(current_rules, f)).target_region \in RegionsAt(position)

\* C23: when a second call of organize_all_desktop_icons returns, every file
\* that sat in the region of its matching rule when the call began sits in
\* that region still
C23_BulkKeepsFilesInTheirRegion ==
  (organizer.runs = 2 /\ organizer.pc = "returned") =>
     \A f \in Paths : InRegionOfItsRule(f, organizer.before[f])
                         => InRegionOfItsRule(f, Sits[f])
C23_Witness ==
  /\ organizer.runs = 2 /\ organizer.pc = "returned"
  /\ organizer.results.organized_files >= 1
  /\ \E f \in Paths :
       /\ InRegionOfItsRule(f, organizer.before[f])
       /\ \E i \in 1..Len(organizer.handled) : organizer.handled[i] = f
       /\ \A i \in 1..Len(organizer.failures) : organizer.failures[i] # f


InStatistics == probe.fn = "get_statistics" /\ probe.pc # "returned"
StatisticsStep == get_statistics_pending \/ get_statistics_active
\* the two reads of a call, each at the step that makes it
ReadsPending ==
  /\ probe.fn = "get_statistics" /\ probe.pc = "pending_operations"
  /\ probe'.pc = "monitoring_active"
ReadsActive ==
  /\ probe.fn = "get_statistics" /\ probe.pc = "monitoring_active"
  /\ probe'.pc = "returned"

\* C24: a call of get_statistics is never held up by a lock (each of its
\* steps can be taken in every state, whatever the threads of the engine
\* hold), its steps change nothing but the caller's own result, the
\* pending_operations of the result is the length of the queue when it is
\* read, and monitoring_active is true exactly when the observer is alive at
\* its read
C24_StatisticsReadOnly ==
  /\ [](InStatistics => ENABLED StatisticsStep)
  /\ [][/\ probe' # probe => UNCHANGED notProbeVars
        /\ ReadsPending => probe'.pending_operations = Len(pending_operations)
        /\ ReadsActive => probe'.monitoring_active = (monitoring.observer = "alive")]_vars
\* a call that reads a queue that holds an operation while a thread holds
\* the placement lock, and finds the observer stopped
C24_Witness ==
  /\ probe.fn = "get_statistics" /\ probe.pc = "returned"
  /\ probe.pending_operations = 1
  /\ ~probe.monitoring_active
  /\ monitoring.observer = "stopped"
  /\ placement_lock # "free"


\* what the contract asks of a rule
KnownRegionIdSet == {"top_left", "top_right", "bottom_left", "bottom_right"}
ValidRule(r) ==
  /\ r.rule_id # "" /\ r.name # ""
  /\ r.target_region \in KnownRegionIdSet
  /\ r.priority \in 1..100
  /\ r.conditions # {}
Elements(seq) == {seq[i] : i \in 1..Len(seq)}

\* the rules a validation kept: valid rules only, all of them rules of the
\* input, no name twice; every valid rule of the input has its name in the
\* result, at the highest priority a valid rule of that name has
KeepsValidRules(rules, out) ==
  /\ \A r \in Elements(out) : ValidRule(r) /\ r \in Elements(rules)
  /\ \A i, j \in 1..Len(out) : i # j => out[i].name # out[j].name
  /\ \A r \in Elements(rules) :
       ValidRule(r) => \E k \in Elements(out) :
                          k.name = r.name /\ k.priority >= r.priority

\* C25: the validated rule set holds valid rules only, all of them rules of
\* the input, no name twice; every valid rule of the input has its name in
\* the result, at a priority that is not lower; and the rule set handed to
\* the matcher holds the same rules, none with an unknown target region
C25_ValidationKeepsValidRules ==
  /\ probe.fn \in {"generate_and_load", "validate_and_optimize_rules"} =>
       KeepsValidRules(probe.rules, probe.validated)
  /\ probe.fn = "generate_and_load" =>
       /\ Elements(probe.current_rules) = Elements(probe.validated)
       /\ Len(probe.current_rules) = Len(probe.validated)
       /\ \A r \in Elements(probe.current_rules) : r.target_region \in KnownRegionIdSet
\* a rule set of two valid rules of one name and a rule with an unknown
\* region: the rule of the higher priority is kept alone
C25_Witness ==
  /\ probe.fn = "validate_and_optimize_rules"
  /\ Len(probe.rules) = 3
  /\ probe.rules[1].name = probe.rules[2].name
  /\ ValidRule(probe.rules[1]) /\ ValidRule(probe.rules[2])
  /\ probe.rules[1].priority < probe.rules[2].priority
  /\ probe.rules[3].target_region = "others"
  /\ probe.validated = <<probe.rules[2]>>


\* the thread has not left _process_operations
LoopGoesOn == \A w \in Workers : worker[w].pc # "exited"
\* the operations put into the queue come to their outcomes: again and
\* again none of them is without one
ComesToOutcome ==
  []<>(\A i \in OpIds : op_log.n_ops >= i => op_log.outcome[i] # "none")
\* a failed attempt leaves the outcomes of the other operations alone
FailureConfined ==
  \A w \in Workers :
    (worker[w].pc = "place" /\ placers[w].pc = "returned" /\ ~placers[w].result
       /\ worker'[w] # worker[w])
      => \A i \in OpIds \ {worker[w].op.id} : op_log'.outcome[i] = op_log.outcome[i]

\* C26: a failed operation (no free cell, the file gone at the match or at
\* the write) does not end the loop of the processing thread and touches no
\* other operation, and every operation put into the queue, behind a failing
\* one too, is taken and executed to its outcome
C26_FailureIsConfined == []LoopGoesOn /\ [][FailureConfined]_vars /\ ComesToOutcome
\* operation 1 failed at the write because its file was deleted, and was
\* dropped at its retry; operation 2, put in behind it, was placed
C26_Witness ==
  /\ op_log.n_ops = 2
  /\ op_log.outcome[1] = "missing" /\ op_log.attempts[1] >= 1
  /\ stats.failed_moves >= 1
  /\ op_log.outcome[2] = "placed"
  /\ Len(op_log.dequeued) >= 3
  /\ op_log.dequeued[1] = 1 /\ op_log.dequeued[2] = 2


\* ------------------------------------------------------------------------
\* the occupied set, the retry counter, the counters
\* ------------------------------------------------------------------------
\* the coordinates the icon-position store reports now
StoreReports ==
  {<<i.x, i.y>> : i \in get_all_icon_positions(listview, icon_count)}
\* the search of thread t took every cell it passed over, and no other, for
\* occupied: the cell it returns is not reported by the store, every cell of
\* the grid before it is, and the occupied set is what the store reports
SearchSeesTheStore(t) ==
  LET region == target_region(regions, placers[t].region_id)
      found == IF placers'[t].pc = "commit" THEN placers'[t].position ELSE NoPosition
  IN /\ occupied_positions' = StoreReports
     /\ found \notin StoreReports
     /\ \A c \in ClaimedGrid(region) :
          (found = NoPosition \/ (c # found /\ RowMajorBefore(c, found)))
             => c \in StoreReports

\* C31: every placement search works on the occupied set as the store
\* reports it at that search: no reported coordinate is taken for free and
\* no coordinate the store does not report (any more) is taken for occupied
C31_SearchOnFreshOccupiedSet ==
  [][\A t \in Threads :
       (ScanStep(t) /\ placers[t].region_id \in KnownRegionIds)
          => SearchSeesTheStore(t)]_vars
\* a second search returns the cell the engine itself wrote before: the
\* store does not report it
C31_Witness ==
  /\ placers["caller"].pc = "commit"
  /\ placers["caller"].position = <<5, 5>>
  /\ \E i \in 1..Len(committed) : committed[i].position = <<5, 5>>
  /\ listview /\ icon_count = 1


\* the PendingOperation objects there are: in the queue and in the hands of
\* the threads
LiveOperations ==
  {pending_operations[k] : k \in 1..Len(pending_operations)}
    \cup {worker[w].op : w \in {v \in Workers : Executing(v)}}
RetriesInRange ==
  \A operation \in LiveOperations :
    0 <= operation.retries /\ operation.retries <= operation.max_retries
\* an operation that has come to its outcome (placed, dropped, given up) is
\* in the queue no more; outcomes are final, so it never is again
GoneForGood ==
  \A id \in OpIds : op_log.outcome[id] # "none" => ~InQueue(id) /\ ~InHand(id)
OutcomesAreFinal ==
  \A id \in OpIds : op_log.outcome[id] # "none" => op_log'.outcome[id] = op_log.outcome[id]

\* C32: the retry counter of every operation lies in 0..max_retries, and an
\* operation that was placed, dropped or given up after its last retry is
\* never in the queue again
C32_RetriesBoundedAndRemoval ==
  [](RetriesInRange /\ GoneForGood) /\ [][OutcomesAreFinal]_vars
\* an operation waits in the queue for its last attempt while another one,
\* placed, is gone
C32_Witness ==
  /\ \E k \in 1..Len(pending_operations) :
       pending_operations[k].retries = pending_operations[k].max_retries
  /\ \E id \in OpIds : op_log.outcome[id] = "placed" /\ ~InQueue(id)


\* C33: when the worker takes a successful answer of place_icon_in_region,
\* successful_moves grows by one, failed_moves and the queue stay as they
\* are and the operation is at its end, at a first attempt and at a retry
C33_SuccessCountedOnce ==
  [][\A w \in Workers :
       (TakesPlacement(w) /\ placers[w].result)
         => /\ stats'.successful_moves = stats.successful_moves + 1
            /\ stats'.failed_moves = stats.failed_moves
            /\ stats'.processed_files = stats.processed_files
            /\ pending_operations' = pending_operations
            /\ worker'[w].pc = "loop"
            /\ op_log'.outcome[worker[w].op.id] = "placed"]_vars
\* an operation was placed at its second retry
C33_Witness ==
  \E w \in Workers :
    /\ worker[w].pc = "loop" /\ worker[w].op.retries = 2
    /\ op_log.outcome[worker[w].op.id] = "placed"
    /\ stats.successful_moves = 1 /\ stats.failed_moves = 2


CountersConsistent ==
  stats.successful_moves + stats.failed_moves <= stats.processed_files
CountersGrow ==
  /\ stats'.processed_files >= stats.processed_files
  /\ stats'.successful_moves >= stats.successful_moves
  /\ stats'.failed_moves >= stats.failed_moves

\* C34: successful_moves + failed_moves never exceeds processed_files, and
\* no step, a stop or a start of the monitoring included, makes one of the
\* three counters smaller
C34_CountersMonotone == []CountersConsistent /\ [][CountersGrow]_vars
\* the engine was stopped with an operation in hand and started again, and
\* counts on from where it was
C34_Witness ==
  /\ op_log.at_stop # {}
  /\ ~monitoring.stop_event /\ monitoring.log = "started" /\ monitoring.ctl = "idle"
  /\ stats.processed_files >= 2 /\ stats.failed_moves >= 2


\* how often id occurs in a sequence of ids, and the sum of a function
RECURSIVE TimesIn(_, _)
TimesIn(seq, id) ==
  IF seq = <<>> THEN 0
  ELSE (IF Head(seq) = id THEN 1 ELSE 0) + TimesIn(Tail(seq), id)
RECURSIVE SumOf(_, _)
SumOf(f, ids) ==
  IF ids = {} THEN 0
  ELSE LET i == CHOOSE j \in ids : TRUE IN f[i] + SumOf(f, ids \ {i})
At(pc) == Cardinality({w \in Workers : worker[w].pc = pc})

\* C35: processed_files is the number of operations taken from the queue
\* (less the ones taken this moment and not counted yet), failed_moves and
\* successful_moves together are the number of placement attempts that have
\* returned, and an operation given up after its last retry was taken from
\* the queue and has failed max_retries + 1 times
C35_CountersCountAttempts ==
  /\ stats.processed_files + At("execute") = Len(op_log.dequeued)
  /\ stats.successful_moves + stats.failed_moves + At("place")
       = SumOf(op_log.attempts, OpIds)
  /\ stats.successful_moves = Cardinality({i \in OpIds : op_log.outcome[i] = "placed"})
  /\ \A i \in OpIds :
       op_log.outcome[i] = "abandoned"
         => /\ TimesIn(op_log.dequeued, i) = max_retries + 1
            /\ op_log.attempts[i] = max_retries + 1
C35_Witness ==
  /\ op_log.n_ops = 1 /\ op_log.outcome[1] = "abandoned"
  /\ stats.processed_files = max_retries + 1
  /\ stats.failed_moves = max_retries + 1
  /\ stats.successful_moves = 0


\* every operation that was put into the queue has its outcome, no thread
\* holds one and the queue is empty
AllDone ==
  /\ Len(pending_operations) = 0
  /\ \A w \in Workers : ~Executing(w)
  /\ \A i \in OpIds : op_log.n_ops >= i => op_log.outcome[i] # "none"

\* C36: while the processing thread runs (no stop) and the calls of the
\* icon manager return, the operations put into the queue come to a
\* terminal outcome, and from some time on, when no further operation
\* arrives, the queue is empty for good
C36_QueueDrains == <>[]AllDone
\* two operations have been worked off, one of them after all its retries
C36_Witness ==
  /\ AllDone /\ op_log.n_ops = 2
  /\ \E i \in OpIds : op_log.attempts[i] = max_retries + 1
  /\ \E i \in OpIds : op_log.attempts[i] = 1 /\ op_log.outcome[i] = "placed"


\* ------------------------------------------------------------------------
\* the stop: what the thread still does, what is kept
\* ------------------------------------------------------------------------
\* with the stop event set no thread takes an operation from the queue
DequeuesNothingWhenStopped ==
  monitoring.stop_event => op_log'.dequeued = op_log.dequeued

\* C37: from the stop signal to the next start the processing thread takes
\* no further operation from the queue; it finishes the operation it is
\* executing and starts no placement after it.
C37_NoDequeueAfterStop == [][DequeuesNothingWhenStopped]_vars


\* a step of stop_monitoring
StopStep ==
  \/ monitoring.ctl = "idle" /\ monitoring'.ctl = "observer"
  \/ monitoring.ctl = "observer" /\ monitoring'.ctl = "join"
  \/ monitoring.ctl = "join" /\ monitoring'.ctl = "idle"
StopKeeps ==
  StopStep =>
    /\ pending_operations' = pending_operations
    /\ current_rules' = current_rules
    /\ rule_cache' = rule_cache
    /\ stats' = stats
\* the queue changes at its ends only: an operation is appended at the tail
\* or the head is taken by a thread
QueueIsFifo ==
  pending_operations' # pending_operations =>
    IF Len(pending_operations') < Len(pending_operations)
    THEN /\ pending_operations' = Tail(pending_operations)
         /\ op_log'.dequeued = Append(op_log.dequeued, Head(pending_operations).id)
    ELSE /\ Len(pending_operations') = Len(pending_operations) + 1
         /\ SubSeq(pending_operations', 1, Len(pending_operations)) = pending_operations
         /\ op_log'.dequeued = op_log.dequeued

\* C38: stop_monitoring discards nothing: its steps leave the queue, the
\* loaded rules, the match cache and the counters as they are, and the
\* operations in the queue, those a debounce timer appended after the stop
\* included, are taken in the order of the queue after the next start that
\* succeeds.
C38_StopDiscardsNothing == [][StopKeeps]_vars /\ [][QueueIsFifo]_vars
\* operation 1 was in the queue at the stop, operation 2 came from a timer
\* after it, and the thread of the next start has taken both, in this order
C38_Witness ==
  /\ 1 \in op_log.pending_at_stop /\ 2 \in op_log.late
  /\ op_log.dequeued = <<1, 2>>
  /\ ~monitoring.stop_event /\ monitoring.log = "started"


\* ------------------------------------------------------------------------
\* organize_all_desktop_icons: what it leaves alone
\* ------------------------------------------------------------------------
\* a step of organize_all_desktop_icons or of a call it makes
OrganizeStep ==
  \/ organizer' # organizer
  \/ matchers'["caller"] # matchers["caller"]
  \/ placers'["caller"] # placers["caller"]
OrganizeFrame ==
  OrganizeStep =>
    /\ stats' = stats
    /\ pending_operations' = pending_operations
    /\ UNCHANGED <<monitoring, auto_organize, worker, op_log>>
    /\ UNCHANGED <<current_rules, rule_lists, files>>
    /\ UNCHANGED <<screen, listview, icon_count, regions>>
    /\ UNCHANGED debVars

\* C39: organize_all_desktop_icons leaves processed_files, successful_moves
\* and failed_moves and the queue of pending operations as they are; of the
\* state it shares it changes the match cache, the occupied set and the
\* icon positions only.
C39_OrganizeLeavesCountersAndQueue == [][OrganizeFrame]_vars
\* a pass has organized a file and failed on another while the processing
\* thread had counted a failure and its operation waited in the queue
C39_Witness ==
  /\ organizer.pc = "returned"
  /\ organizer.results.organized_files >= 1 /\ organizer.results.failed_files >= 1
  /\ stats.failed_moves >= 1 /\ Len(pending_operations) >= 1


\* ------------------------------------------------------------------------
\* the debouncer's records
\* ------------------------------------------------------------------------
\* C40: when every delayed_process thread started for the notifications of
\* a path has ended, pending_events has no entry for the path, however the
\* threads and the notifications were interleaved.
C40_RecordRemoved ==
  \A p \in Paths :
    (Notified(p) # {} /\ Settled(p)) => pending_events[p] = NoEvent
\* two notifications of one path, the first superseded by the second: one
\* operation was forwarded and both threads have ended
C40_Witness ==
  \E p \in Paths :
    /\ Cardinality(Notified(p)) = 2 /\ Settled(p)
    /\ Cardinality(OpsFor(p)) = 1
    /\ \A k \in OpsFor(p) : pending_operations[k].id = LastNotified(p)
    /\ pending_events[p] = NoEvent

====
